---------------------------- MODULE Spec2Model ----------------------------
(***************************************************************************)
(* A model of the flat-earth-engine simulation-to-geometry pipeline:       *)
(* the Camera and its matrix cache, the GPS station simulator, the climate *)
(* zone classifier, the GPU resource lifecycle of the renderer set and of  *)
(* FlatEarthEngine, the EM field streamline integrator, the startup        *)
(* sequence, the UniformManager, angularDifference, the engine's          *)
(* simulation state with its controls and frame loop, the day length of    *)
(* SolarSimulator, the expansion law against station advection, and the    *)
(* disk geometry generator.                                                *)
(*                                                                         *)
(* Numbers of the program (IEEE doubles) are modelled as exact rationals   *)
(* <<n, d>> with d > 0 in lowest terms; rounding is not modelled.          *)
(***************************************************************************)
EXTENDS Integers, Sequences, FiniteSets, TLC

VARIABLES
    cam,          \* Camera fields: x, y, zoom, rotation, aspect, dirty and
                  \* the cached viewProjectionMatrix
    camOps,       \* number of Camera operations performed so far
    camLast,      \* the last Camera operation, with zoomToPoint's anchor
    camStale,     \* a mutator has run since the matrices were last recomputed
    camGet,       \* the last getViewProjectionMatrix call: what it returned,
                  \* whether it recomputed, and camStale before it
    stations,     \* GPSSimulator.stations
    gpsRate,      \* GPSSimulator.expansionRate
    gpsOps,       \* number of GPSSimulator operations performed so far
    gpsLast,      \* the last GPSSimulator operation
    gpsCreated,   \* the initialPosition each station was created with
    climate,      \* ClimateModel fields: heatingZone, coolingZone
    climR,        \* the radius last classified
    climZone,     \* getClimateZone(climR) under the boundaries in force, "NONE"
                  \* when it has not been called since they were set
    glObjects,    \* every GPU object created so far, indexed by its handle
    shaders,      \* ShaderManager.programs: name -> handle, 0 when absent
    earthR,       \* FlatEarthEngine.earthRenderer (EarthRenderer)
    fieldR,       \* FlatEarthEngine.fieldRenderer (EMFieldRenderer)
    solarR,       \* FlatEarthEngine.solarRenderer (SolarRenderer)
    gpsR,         \* FlatEarthEngine.gpsRenderer (GPSRenderer)
    climateR,     \* a ClimateRenderer built on the engine's shared geometry
    baseDisk,     \* the shared base-disk vertex array init() lends out
    enginePc,     \* where FlatEarthEngine is: constructed, running, in dispose()
    glOps,        \* number of renderer and engine operations performed so far
    glLast,       \* the last renderer operation, the renderer it ran on and
                  \* the sizes of its input
    disposedR,    \* the renderers dispose() has been called on
    sl,           \* EMFieldSolver.generateStreamlines: its arguments and result
    boot,         \* the startup sequence: where it is, what it threw and showed
    uni,          \* getUniformLocation calls made and the last UniformManager
    ang,          \* angularDifference: its arguments and result
    sim,          \* FlatEarthEngine: simulation state, view, solvers, buffers
    simStartup,   \* the SimulationState the engine started with
    simOp,        \* the last frame or control event
    simOps,       \* number of frames and control events so far
    day,          \* getDayLengthHours: the day, its sampled intensities and the result
    expn,         \* one GPSSimulator: its rate, station and the deltaTimes applied
    circle        \* generateCircleVertices: its arguments and result

camVars == <<cam, camOps, camLast, camStale, camGet>>
gpsVars == <<stations, gpsRate, gpsOps, gpsLast, gpsCreated>>
climVars == <<climate, climR, climZone>>
glVars == <<glObjects, shaders, earthR, fieldR, solarR, gpsR, climateR,
            baseDisk, enginePc, glOps, glLast, disposedR>>
slVars == <<sl>>
bootVars == <<boot>>
uniVars == <<uni>>
angVars == <<ang>>
simVars == <<sim, simStartup, simOp, simOps>>
dayVars == <<day>>
expVars == <<expn>>
circleVars == <<circle>>

\* what the operations of one component leave alone
notCamera == <<gpsVars, climVars, glVars, slVars, bootVars, uniVars, angVars, simVars, dayVars, expVars, circleVars>>
notGPS == <<camVars, climVars, glVars, slVars, bootVars, uniVars, angVars, simVars, dayVars, expVars, circleVars>>
notClimate == <<camVars, gpsVars, glVars, slVars, bootVars, uniVars, angVars, simVars, dayVars, expVars, circleVars>>
notGL == <<camVars, gpsVars, climVars, slVars, bootVars, uniVars, angVars, simVars, dayVars, expVars, circleVars>>
notStreamline == <<camVars, gpsVars, climVars, glVars, bootVars, uniVars, angVars, simVars, dayVars, expVars, circleVars>>
notBoot == <<camVars, gpsVars, climVars, glVars, slVars, uniVars, angVars, simVars, dayVars, expVars, circleVars>>
notUniforms == <<camVars, gpsVars, climVars, glVars, slVars, bootVars, angVars, simVars, dayVars, expVars, circleVars>>
notAngles == <<camVars, gpsVars, climVars, glVars, slVars, bootVars, uniVars, simVars, dayVars, expVars, circleVars>>
notSim == <<camVars, gpsVars, climVars, glVars, slVars, bootVars, uniVars, angVars, dayVars, expVars, circleVars>>
notDay == <<camVars, gpsVars, climVars, glVars, slVars, bootVars, uniVars, angVars, simVars, expVars, circleVars>>
notExpansion == <<camVars, gpsVars, climVars, glVars, slVars, bootVars, uniVars, angVars, simVars, dayVars, circleVars>>
notCircle == <<camVars, gpsVars, climVars, glVars, slVars, bootVars, uniVars, angVars, simVars, dayVars, expVars>>

(***************************************************************************)
(* Exact rational arithmetic                                               *)
(***************************************************************************)
AbsInt(n) == IF n < 0 THEN -n ELSE n

RECURSIVE GCD(_, _)
GCD(a, b) == IF b = 0 THEN a ELSE GCD(b, a % b)

\* the rational n/d (d # 0) in lowest terms with a positive denominator
Rat(n, d) ==
    LET g == GCD(AbsInt(n), AbsInt(d))
        s == IF d < 0 THEN -1 ELSE 1
    IN  <<(s * n) \div g, (s * d) \div g>>

RInt(n) == <<n, 1>>
Zero == RInt(0)
One == RInt(1)

RNeg(a) == <<-a[1], a[2]>>

RAdd(a, b) ==
    LET g == GCD(a[2], b[2])
    IN  Rat(a[1] * (b[2] \div g) + b[1] * (a[2] \div g), (a[2] \div g) * b[2])

RSub(a, b) == RAdd(a, RNeg(b))

RMul(a, b) ==
    LET g1 == GCD(AbsInt(a[1]), b[2])
        g2 == GCD(AbsInt(b[1]), a[2])
    IN  IF a[1] = 0 \/ b[1] = 0 THEN Zero
        ELSE <<(a[1] \div g1) * (b[1] \div g2), (a[2] \div g2) * (b[2] \div g1)>>

\* a / b for b # 0
RDiv(a, b) ==
    IF b[1] < 0 THEN RMul(a, <<-b[2], -b[1]>>) ELSE RMul(a, <<b[2], b[1]>>)

RLt(a, b) ==
    LET g == GCD(a[2], b[2])
    IN  a[1] * (b[2] \div g) < b[1] * (a[2] \div g)

RLe(a, b) == a = b \/ RLt(a, b)

RMax(a, b) == IF RLt(a, b) THEN b ELSE a
RMin(a, b) == IF RLt(b, a) THEN b ELSE a
RAbs(a) == <<AbsInt(a[1]), a[2]>>


(***************************************************************************)
(* Camera (src/src/rendering/camera.ts)                                    *)
(*                                                                         *)
(* An angle is an integer k standing for k * alpha, where cos(alpha) = 3/5 *)
(* and sin(alpha) = 4/5, so that Math.cos and Math.sin are exact rationals *)
(* and sums and negations of angles stay in the domain.                    *)
(***************************************************************************)
MaxCamOps == 2
MaxRot == 2

RECURSIVE CosSin(_)
CosSin(k) ==
    IF k = 0 THEN <<One, Zero>>
    ELSE LET p == CosSin(k - 1)
         IN  <<RSub(RMul(p[1], Rat(3, 5)), RMul(p[2], Rat(4, 5))),
               RAdd(RMul(p[1], Rat(4, 5)), RMul(p[2], Rat(3, 5)))>>

MathCos(k) == CosSin(AbsInt(k))[1]
MathSin(k) == IF k < 0 THEN RNeg(CosSin(-k)[2]) ELSE CosSin(k)[2]

minZoom == Rat(1, 10)
maxZoom == RInt(10)
ANTARCTIC_RIM_RADIUS == 20000

\* The entries of a 4x4 matrix (column-major, as in the Float32Array) that
\* the camera writes with values depending on its fields; the other entries
\* are the constants of an orthographic and a planar transform.
Matrix(m0, m1, m4, m5, m12, m13) ==
    [m0 |-> m0, m1 |-> m1, m4 |-> m4, m5 |-> m5, m12 |-> m12, m13 |-> m13]

\* ortho(out, -halfWidth, halfWidth, -halfHeight, halfHeight, -1, 1)
ortho(left, right, bottom, top) ==
    LET lr == RDiv(One, RSub(left, right))
        bt == RDiv(One, RSub(bottom, top))
    IN  Matrix(RMul(RInt(-2), lr), Zero, Zero, RMul(RInt(-2), bt),
               RMul(RAdd(left, right), lr), RMul(RAdd(top, bottom), bt))

identity == Matrix(One, Zero, Zero, One, Zero, Zero)

translate(m, x, y) ==
    [m EXCEPT !.m12 = RAdd(RAdd(RMul(m.m0, x), RMul(m.m4, y)), m.m12),
              !.m13 = RAdd(RAdd(RMul(m.m1, x), RMul(m.m5, y)), m.m13)]

rotateZ(m, angle) ==
    LET s == MathSin(angle)
        c == MathCos(angle)
    IN  [m EXCEPT !.m0 = RAdd(RMul(m.m0, c), RMul(m.m4, s)),
                  !.m1 = RAdd(RMul(m.m1, c), RMul(m.m5, s)),
                  !.m4 = RSub(RMul(m.m4, c), RMul(m.m0, s)),
                  !.m5 = RSub(RMul(m.m5, c), RMul(m.m1, s))]

\* multiply(out, a, b): out = a * b
multiply(a, b) ==
    Matrix(RAdd(RMul(b.m0, a.m0), RMul(b.m1, a.m4)),
           RAdd(RMul(b.m0, a.m1), RMul(b.m1, a.m5)),
           RAdd(RMul(b.m4, a.m0), RMul(b.m5, a.m4)),
           RAdd(RMul(b.m4, a.m1), RMul(b.m5, a.m5)),
           RAdd(RAdd(RMul(b.m12, a.m0), RMul(b.m13, a.m4)), a.m12),
           RAdd(RAdd(RMul(b.m12, a.m1), RMul(b.m13, a.m5)), a.m13))

\* the body of updateMatrices past its dirty test
buildViewProjection(c) ==
    LET halfWidth == RDiv(c.aspect, c.zoom)
        halfHeight == RDiv(One, c.zoom)
        projectionMatrix == ortho(RNeg(halfWidth), halfWidth,
                                  RNeg(halfHeight), halfHeight)
        viewMatrix == rotateZ(translate(identity, RNeg(c.x), RNeg(c.y)),
                              -c.rotation)
    IN  multiply(projectionMatrix, viewMatrix)

updateMatrices_KeepsDirty(c) ==
    IF ~c.dirty THEN c
    ELSE [c EXCEPT !.viewProjectionMatrix = buildViewProjection(c)]

updateMatrices(c) ==
    IF ~c.dirty THEN c
    ELSE [c EXCEPT !.viewProjectionMatrix = buildViewProjection(c),
                   !.dirty = FALSE]

\* new Camera(aspect): the field initialisers, then updateMatrices()
CameraNew(aspect) ==
    updateMatrices([x |-> Zero, y |-> Zero, zoom |-> One, rotation |-> 0,
                    aspect |-> aspect, dirty |-> TRUE,
                    viewProjectionMatrix |-> Matrix(Zero, Zero, Zero, Zero, Zero, Zero)])

setPosition(c, x, y) == [c EXCEPT !.x = x, !.y = y, !.dirty = TRUE]

pan(c, dx, dy) ==
    LET speed == RDiv(One, c.zoom)
    IN  [c EXCEPT !.x = RAdd(c.x, RMul(dx, speed)),
                  !.y = RAdd(c.y, RMul(dy, speed)),
                  !.dirty = TRUE]

setZoom(c, zoom) ==
    [c EXCEPT !.zoom = RMax(minZoom, RMin(maxZoom, zoom)), !.dirty = TRUE]

zoomBy(c, factor) == setZoom(c, RMul(c.zoom, factor))

worldToScreen_SameSign(c, worldX, worldY) ==
    LET dx == RSub(worldX, c.x)
        dy == RSub(worldY, c.y)
        cos == MathCos(c.rotation)
        sin == MathSin(c.rotation)
        rotX == RSub(RMul(dx, cos), RMul(dy, sin))
        rotY == RAdd(RMul(dx, sin), RMul(dy, cos))
    IN  <<RDiv(RMul(rotX, c.zoom), c.aspect), RMul(rotY, c.zoom)>>

worldToScreen(c, worldX, worldY) ==
    LET dx == RSub(worldX, c.x)
        dy == RSub(worldY, c.y)
        cos == MathCos(-c.rotation)
        sin == MathSin(-c.rotation)
        rotX == RSub(RMul(dx, cos), RMul(dy, sin))
        rotY == RAdd(RMul(dx, sin), RMul(dy, cos))
    IN  <<RDiv(RMul(rotX, c.zoom), c.aspect), RMul(rotY, c.zoom)>>

screenToWorld(c, screenX, screenY) ==
    LET ndcX == screenX
        ndcY == screenY
        worldX == RDiv(RMul(ndcX, c.aspect), c.zoom)
        worldY == RDiv(ndcY, c.zoom)
        cos == MathCos(c.rotation)
        sin == MathSin(c.rotation)
    IN  <<RAdd(RSub(RMul(worldX, cos), RMul(worldY, sin)), c.x),
          RAdd(RAdd(RMul(worldX, sin), RMul(worldY, cos)), c.y)>>

zoomToPoint(c, worldX, worldY, factor) ==
    LET screenBefore == worldToScreen(c, worldX, worldY)
        c1 == zoomBy(c, factor)
        screenAfter == worldToScreen(c1, worldX, worldY)
        dx == RSub(screenAfter[1], screenBefore[1])
        dy == RSub(screenAfter[2], screenBefore[2])
    IN  pan(c1, RDiv(RNeg(dx), c1.zoom), RDiv(RNeg(dy), c1.zoom))

setRotation(c, rotation) == [c EXCEPT !.rotation = rotation, !.dirty = TRUE]

rotate(c, angle) == [c EXCEPT !.rotation = c.rotation + angle, !.dirty = TRUE]

setAspect(c, aspect) == [c EXCEPT !.aspect = aspect, !.dirty = TRUE]

setState(c, state) ==
    [c EXCEPT !.x = state.x, !.y = state.y, !.zoom = state.zoom,
              !.rotation = state.rotation, !.dirty = TRUE]

\* padding is the default 1.1
fitEarth(c, earthRadius) ==
    LET viewSize == RMax(RMul(RMul(earthRadius, RInt(2)), Rat(11, 10)), One)
    IN  [c EXCEPT !.x = Zero, !.y = Zero, !.rotation = 0,
                  !.zoom = RDiv(RMin(c.aspect, One), viewSize),
                  !.dirty = TRUE]

\* the inputs the operations are driven with
AspectSet == {One, RInt(2), Rat(1, 2)}
PointSet == {<<Zero, Zero>>, <<RInt(3), RInt(-2)>>}
PanSet == {<<Rat(1, 2), Zero>>, <<RInt(-1), Rat(1, 2)>>}
ZoomSet == {Rat(1, 20), RInt(2), RInt(20)}
FactorSet == {Rat(1, 2), RInt(2)}
RotSet == {-1, 0, 1}
RadiusSet == {RInt(ANTARCTIC_RIM_RADIUS), Rat(1, 4)}
ScreenSet == {<<Zero, Zero>>, <<Rat(1, 2), RInt(-1)>>, <<One, One>>}
CameraStateSet ==
    {[x |-> RInt(1), y |-> RInt(-1), zoom |-> RInt(2), rotation |-> 1],
     [x |-> Zero, y |-> Zero, zoom |-> RInt(20), rotation |-> 0],
     [x |-> Rat(1, 2), y |-> Zero, zoom |-> Rat(1, 20), rotation |-> -1]}

NoAnchor == [op |-> "none", anchor |-> <<Zero, Zero>>, before |-> <<Zero, Zero>>]

\* the aspect is canvas.width / canvas.height at construction
InitCamera(aspects) ==
    /\ cam \in {CameraNew(a) : a \in aspects}
    /\ camOps = 0
    /\ camLast = NoAnchor
    /\ camStale = FALSE
    /\ camGet = [recomputed |-> FALSE, wasStale |-> FALSE,
                 returned |-> cam.viewProjectionMatrix]

CamStep(c, op) ==
    /\ camOps < MaxCamOps
    /\ UNCHANGED notCamera
    /\ cam' = c
    /\ camOps' = camOps + 1
    /\ camLast' = [NoAnchor EXCEPT !.op = op]
    /\ camStale' = TRUE
    /\ UNCHANGED camGet

SetPosition == \E p \in PointSet : CamStep(setPosition(cam, p[1], p[2]), "setPosition")
Pan == \E d \in PanSet : CamStep(pan(cam, d[1], d[2]), "pan")
SetZoom == \E z \in ZoomSet : CamStep(setZoom(cam, z), "setZoom")
ZoomBy == \E f \in FactorSet : CamStep(zoomBy(cam, f), "zoomBy")
ZoomToPoint ==
    \E p \in PointSet, f \in FactorSet :
        /\ camOps < MaxCamOps
        /\ UNCHANGED notCamera
        /\ cam' = zoomToPoint(cam, p[1], p[2], f)
        /\ camOps' = camOps + 1
        /\ camLast' = [op |-> "zoomToPoint", anchor |-> p,
                       before |-> worldToScreen(cam, p[1], p[2])]
        /\ camStale' = TRUE
        /\ UNCHANGED camGet
SetRotation == \E r \in RotSet : CamStep(setRotation(cam, r), "setRotation")
Rotate ==
    \E a \in {-1, 1} :
        /\ AbsInt(cam.rotation + a) <= MaxRot
        /\ CamStep(rotate(cam, a), "rotate")
SetAspect == \E a \in AspectSet : CamStep(setAspect(cam, a), "setAspect")
SetState == \E s \in CameraStateSet : CamStep(setState(cam, s), "setState")
FitEarth == \E r \in RadiusSet : CamStep(fitEarth(cam, r), "fitEarth")

GetViewProjectionMatrix ==
    /\ camOps < MaxCamOps
    /\ UNCHANGED notCamera
    /\ cam' = updateMatrices(cam)
    /\ camOps' = camOps + 1
    /\ camLast' = [NoAnchor EXCEPT !.op = "getViewProjectionMatrix"]
    /\ camStale' = (camStale /\ ~cam.dirty)
    /\ camGet' = [recomputed |-> cam.dirty,
                  wasStale |-> camStale,
                  returned |-> cam'.viewProjectionMatrix]

NextCamera ==
    \/ SetPosition
    \/ Pan
    \/ SetZoom
    \/ ZoomBy
    \/ ZoomToPoint
    \/ SetRotation
    \/ Rotate
    \/ SetAspect
    \/ SetState
    \/ FitEarth
    \/ GetViewProjectionMatrix


(***************************************************************************)
(* Geometry kernel and GPSSimulator (src/unnamed/part_003,                 *)
(* src/src/core/solar.ts)                                                  *)
(*                                                                         *)
(* A station angle theta is an integer number of hundredths of a radian;   *)
(* Math.cos and Math.sin of it are rounded to two decimals.                *)
(***************************************************************************)
MaxStations == 2
MaxGpsOps == 3

CosH(theta) ==
    CASE theta = 0 -> One
      [] theta = 15 -> Rat(99, 100)
      [] theta = 30 -> Rat(96, 100)
      [] theta = 35 -> Rat(94, 100)
      [] theta = 50 -> Rat(88, 100)
      [] theta = 60 -> Rat(83, 100)
      [] theta = 250 -> Rat(-80, 100)
      [] theta = 260 -> Rat(-86, 100)
      [] theta = -120 -> Rat(36, 100)

SinH(theta) ==
    CASE theta = 0 -> Zero
      [] theta = 15 -> Rat(15, 100)
      [] theta = 30 -> Rat(30, 100)
      [] theta = 35 -> Rat(34, 100)
      [] theta = 50 -> Rat(48, 100)
      [] theta = 60 -> Rat(56, 100)
      [] theta = 250 -> Rat(60, 100)
      [] theta = 260 -> Rat(52, 100)
      [] theta = -120 -> Rat(-93, 100)

polarToCartesian(polar) ==
    [x |-> RMul(polar.r, CosH(polar.theta)),
     y |-> RMul(polar.r, SinH(polar.theta))]

RATE == Rat(33, 1000)

calculateVelocity(rate, pos) ==
    LET speed == RMul(rate, pos.r)
    IN  [x |-> RMul(speed, CosH(pos.theta)), y |-> RMul(speed, SinH(pos.theta))]

\* one station as generateStations pushes it, for the sampled position
NewStation(rate, position) ==
    [position |-> position,
     initialPosition |-> position,
     velocity |-> calculateVelocity(rate, position),
     displacement |-> [x |-> Zero, y |-> Zero]]

\* samples[i] is the position drawn with Math.random for station i
generateStations(rate, samples) ==
    [i \in 1..Len(samples) |-> NewStation(rate, samples[i])]

addStation(r, theta, radialDisp) ==
    [position |-> [r |-> r, theta |-> theta],
     initialPosition |-> [r |-> r, theta |-> theta],
     velocity |-> [x |-> Zero, y |-> Zero],
     displacement |-> [x |-> RMul(radialDisp, CosH(theta)),
                       y |-> RMul(radialDisp, SinH(theta))]]

generateRealisticStations(rate) ==
    LET added ==
            << addStation(RInt(1000), 50, Rat(2, 1000)),
               addStation(RInt(2000), 30, Rat(1, 1000)),
               addStation(RInt(6000), 15, Rat(5, 10000)),
               addStation(RInt(6500), 250, Rat(4, 10000)),
               addStation(RInt(10000), 60, Zero),
               addStation(RInt(13500), 35, Rat(-3, 100)),
               addStation(RInt(14000), 260, Rat(-2, 1000)),
               addStation(RInt(15000), -120, Rat(-4, 1000)),
               addStation(RInt(19000), 0, Rat(-5, 1000)) >>
    IN  [i \in 1..Len(added) |->
            [added[i] EXCEPT !.velocity = calculateVelocity(rate, added[i].position)]]

updateStation_FromInitial(rate, deltaTime, station) ==
    LET expansionFactor ==
            RAdd(One, RDiv(RMul(RMul(rate, deltaTime), RInt(1000)), RInt(1000)))
        position == [station.position EXCEPT
                        !.r = RAdd(@, RMul(station.initialPosition.r,
                                           RSub(expansionFactor, One)))]
        initialCart == polarToCartesian(station.initialPosition)
        currentCart == polarToCartesian(position)
    IN  [station EXCEPT
            !.position = position,
            !.velocity = calculateVelocity(rate, position),
            !.displacement = [x |-> RSub(currentCart.x, initialCart.x),
                              y |-> RSub(currentCart.y, initialCart.y)]]

\* the body of updatePositions' loop
updateStation(rate, deltaTime, station) ==
    LET expansionFactor ==
            RAdd(One, RDiv(RMul(RMul(rate, deltaTime), RInt(1000)), RInt(1000)))
        position == [station.position EXCEPT !.r = RMul(@, expansionFactor)]
        initialCart == polarToCartesian(station.initialPosition)
        currentCart == polarToCartesian(position)
    IN  [station EXCEPT
            !.position = position,
            !.velocity = calculateVelocity(rate, position),
            !.displacement = [x |-> RSub(currentCart.x, initialCart.x),
                              y |-> RSub(currentCart.y, initialCart.y)]]

updatePositions(sts, rate, deltaTime) ==
    [i \in 1..Len(sts) |-> updateStation(rate, deltaTime, sts[i])]

setExpansionRate(sts, rate) ==
    [i \in 1..Len(sts) |->
        [sts[i] EXCEPT !.velocity = calculateVelocity(rate, sts[i].position)]]

resetStation_KeepDisplacement(rate, station) ==
    [station EXCEPT
        !.position = station.initialPosition,
        !.velocity = calculateVelocity(rate, station.initialPosition)]

\* the body of reset's forEach
resetStation(rate, station) ==
    [station EXCEPT
        !.position = station.initialPosition,
        !.displacement = [x |-> Zero, y |-> Zero],
        !.velocity = calculateVelocity(rate, station.initialPosition)]

reset(sts, rate) == [i \in 1..Len(sts) |-> resetStation(rate, sts[i])]

SampleSet ==
    {[r |-> RInt(1000), theta |-> 0],
     [r |-> RInt(6000), theta |-> 250],
     [r |-> Zero, theta |-> 30]}
RateSet == {Zero, RATE, Rat(1, 1000)}
DtSet == {Zero, RInt(1000)}

RECURSIVE SeqsUpTo(_, _)
SeqsUpTo(S, n) ==
    IF n = 0 THEN {<<>>}
    ELSE LET shorter == SeqsUpTo(S, n - 1)
         IN  shorter \cup {Append(q, e) : q \in {t \in shorter : Len(t) = n - 1}, e \in S}

InitialPositions(sts) == [i \in 1..Len(sts) |-> sts[i].initialPosition]

\* new GPSSimulator(): no stations, the default rate
InitGPS ==
    /\ stations = <<>>
    /\ gpsRate = RATE
    /\ gpsOps = 0
    /\ gpsLast = [op |-> "new", moved |-> FALSE]
    /\ gpsCreated = <<>>

GenerateStations ==
    \E samples \in SeqsUpTo(SampleSet, MaxStations) :
        /\ gpsOps < MaxGpsOps
        /\ UNCHANGED notGPS
        /\ stations' = generateStations(gpsRate, samples)
        /\ gpsCreated' = InitialPositions(stations')
        /\ gpsLast' = [op |-> "generateStations", moved |-> FALSE]
        /\ gpsOps' = gpsOps + 1
        /\ UNCHANGED gpsRate

GenerateRealisticStations ==
    /\ gpsOps < MaxGpsOps
    /\ UNCHANGED notGPS
    /\ stations' = generateRealisticStations(gpsRate)
    /\ gpsCreated' = InitialPositions(stations')
    /\ gpsLast' = [op |-> "generateRealisticStations", moved |-> FALSE]
    /\ gpsOps' = gpsOps + 1
    /\ UNCHANGED gpsRate

UpdatePositions ==
    \E dt \in DtSet :
        /\ gpsOps < MaxGpsOps
        /\ UNCHANGED notGPS
        /\ stations' = updatePositions(stations, gpsRate, dt)
        /\ gpsLast' = [op |-> "updatePositions",
                       moved |-> gpsLast.moved
                           \/ \E i \in 1..Len(stations) :
                                 stations'[i].position # stations[i].position]
        /\ gpsOps' = gpsOps + 1
        /\ UNCHANGED <<gpsRate, gpsCreated>>

SetExpansionRate ==
    \E rate \in RateSet :
        /\ gpsOps < MaxGpsOps
        /\ UNCHANGED notGPS
        /\ gpsRate' = rate
        /\ stations' = setExpansionRate(stations, rate)
        /\ gpsLast' = [gpsLast EXCEPT !.op = "setExpansionRate"]
        /\ gpsOps' = gpsOps + 1
        /\ UNCHANGED gpsCreated

Reset ==
    /\ gpsOps < MaxGpsOps
    /\ UNCHANGED notGPS
    /\ stations' = reset(stations, gpsRate)
    /\ gpsLast' = [gpsLast EXCEPT !.op = "reset"]
    /\ gpsOps' = gpsOps + 1
    /\ UNCHANGED <<gpsRate, gpsCreated>>

NextGPS ==
    \/ GenerateStations
    \/ GenerateRealisticStations
    \/ UpdatePositions
    \/ SetExpansionRate
    \/ Reset


(***************************************************************************)
(* ClimateModel (src/unnamed/part_004), radii in whole km                  *)
(***************************************************************************)
HEATING_ZONE_MIN == 2000
HEATING_ZONE_MAX == 3500
COOLING_ZONE_MIN == 12000
COOLING_ZONE_MAX == 18000
MaxClimK == 84

\* new ClimateModel()
ClimateModelNew ==
    [heatingZone |-> [min |-> HEATING_ZONE_MIN, max |-> HEATING_ZONE_MAX],
     coolingZone |-> [min |-> COOLING_ZONE_MIN, max |-> COOLING_ZONE_MAX]]

getClimateZone_ExclusiveMin(cl, r) ==
    IF r < 1000 THEN "POLAR"
    ELSE IF r > cl.heatingZone.min /\ r <= cl.heatingZone.max THEN "HEATING"
    ELSE IF r > cl.heatingZone.max /\ r < cl.coolingZone.min THEN "STABLE"
    ELSE IF r >= cl.coolingZone.min /\ r <= cl.coolingZone.max THEN "COOLING"
    ELSE IF r > cl.coolingZone.max THEN "SUBARCTIC"
    ELSE "TEMPERATE"

getClimateZone(cl, r) ==
    IF r < 1000 THEN "POLAR"
    ELSE IF r >= cl.heatingZone.min /\ r <= cl.heatingZone.max THEN "HEATING"
    ELSE IF r > cl.heatingZone.max /\ r < cl.coolingZone.min THEN "STABLE"
    ELSE IF r >= cl.coolingZone.min /\ r <= cl.coolingZone.max THEN "COOLING"
    ELSE IF r > cl.coolingZone.max THEN "SUBARCTIC"
    ELSE "TEMPERATE"

setZoneBoundaries(heatingMin, heatingMax, coolingMin, coolingMax) ==
    [heatingZone |-> [min |-> heatingMin, max |-> heatingMax],
     coolingZone |-> [min |-> coolingMin, max |-> coolingMax]]

\* a grid of radii over the disk and beyond, and both sides of every boundary
ClimRadii ==
    {250 * k : k \in 0..MaxClimK}
        \cup {b + d : b \in {1000, HEATING_ZONE_MIN, HEATING_ZONE_MAX,
                             COOLING_ZONE_MIN, COOLING_ZONE_MAX},
                      d \in {-1, 1}}
BoundarySet ==
    {ClimateModelNew, setZoneBoundaries(500, 3000, 10000, 15000)}

InitClimate ==
    /\ climate = ClimateModelNew
    /\ climR = 0
    /\ climZone = "NONE"

GetClimateZone ==
    \E r \in ClimRadii :
        /\ climR' = r
        /\ climZone' = getClimateZone(climate, r)
        /\ UNCHANGED <<climate, notClimate>>

\* no radius has been classified under the new boundaries yet
SetZoneBoundaries ==
    \E b \in BoundarySet :
        /\ climate' = b
        /\ climZone' = "NONE"
        /\ UNCHANGED <<climR, notClimate>>

NextClimate ==
    \/ GetClimateZone
    \/ SetZoneBoundaries

(***************************************************************************)
(* GPU resource layer and the renderer set                                 *)
(* (src/src/rendering/webgl-utils.ts, field-renderer.ts,                   *)
(*  solar-renderer.ts, src/unnamed/part_000, part_001, src/src/main.ts)    *)
(*                                                                         *)
(* A handle is the index of its object in glObjects, 0 is null.  Each      *)
(* object records its kind, the component whose code created it and the    *)
(* components that issued a gl.delete* call on it, in order.               *)
(***************************************************************************)
MaxLines == 2
MaxGlOps == 3
NumClimateEvents == 5

\* gl.createBuffer / gl.createVertexArray / gl.createProgram, called by owner
Alloc(objs, kind, owner) ==
    Append(objs, [kind |-> kind, owner |-> owner, deletedBy |-> <<>>])

\* createBuffer, createBuffer, createVertexArray in a row: the vertex array
\* is handle Len(objs) + 3
AllocGeometry(objs, owner) ==
    Alloc(Alloc(Alloc(objs, "buffer", owner), "buffer", owner), "vao", owner)

\* gl.deleteVertexArray / gl.deleteBuffer / gl.deleteProgram issued by who
Delete(objs, h, who) ==
    IF h = 0 THEN objs ELSE [objs EXCEPT ![h].deletedBy = Append(@, who)]

RECURSIVE DeleteAll(_, _, _)
DeleteAll(objs, hs, who) ==
    IF hs = <<>> THEN objs
    ELSE DeleteAll(Delete(objs, Head(hs), who), Tail(hs), who)

Live(h) == h # 0 /\ glObjects[h].deletedBy = <<>>

\* ShaderManager.loadAll: four programs, in this order
ProgramNames == <<"earth", "field", "line", "solar">>
NoPrograms == [n \in {"earth", "field", "line", "solar"} |-> 0]
loadAll(objs) ==
    [objs |-> Alloc(Alloc(Alloc(Alloc(objs, "program", "shaders"),
                                "program", "shaders"),
                          "program", "shaders"),
                    "program", "shaders"),
     programs |-> [n \in {"earth", "field", "line", "solar"} |->
                      Len(objs) + (CHOOSE i \in 1..4 : ProgramNames[i] = n)]]

\* ShaderManager.dispose
shadersDispose(objs, programs) ==
    [objs |-> DeleteAll(objs, [i \in 1..4 |-> programs[ProgramNames[i]]], "shaders"),
     programs |-> NoPrograms]

NullRenderer ==
    [exists |-> FALSE, programs |-> {}, lineProgram |-> 0, borrowedVAO |-> 0,
     vao |-> 0, indexBuffer |-> 0, vaos |-> <<>>, pathVAO |-> 0,
     count |-> 0, pathCount |-> 0]

\* new EarthRenderer(gl, program): setupGeometry
EarthRendererNew(objs, program) ==
    [objs |-> AllocGeometry(objs, "earth"),
     r |-> [NullRenderer EXCEPT !.exists = TRUE, !.programs = {program},
                                !.indexBuffer = Len(objs) + 2,
                                !.vao = Len(objs) + 3]]

earthDispose(objs, r) ==
    [objs |-> Delete(Delete(objs, r.vao, "earth"), r.indexBuffer, "earth"),
     r |-> r]

\* new EMFieldRenderer(gl, fieldProgram, lineProgram, earthVAO, n)
EMFieldRendererNew(objs, fieldProgram, lineProgram, earthVAO) ==
    [objs |-> objs,
     r |-> [NullRenderer EXCEPT !.exists = TRUE,
                                !.programs = {fieldProgram, lineProgram},
                                !.lineProgram = lineProgram,
                                !.borrowedVAO = earthVAO]]

RECURSIVE AllocLines(_, _, _)
AllocLines(objs, n, owner) ==
    IF n = 0 THEN objs ELSE AllocLines(AllocGeometry(objs, owner), n - 1, owner)

\* EMFieldRenderer.generateStreamlines; n is the number of streamlines of
\* the solver's result that have at least two points
fieldGenerateStreamlines(objs, r, n) ==
    LET cleared == DeleteAll(objs, r.vaos, "field")
    IN  [objs |-> AllocLines(cleared, n, "field"),
         r |-> [r EXCEPT !.vaos = [i \in 1..n |-> Len(objs) + 3 * i]]]

\* the number of draw calls renderStreamlines issues
fieldRenderStreamlines(r) == IF Len(r.vaos) = 0 THEN 0 ELSE Len(r.vaos)

fieldDispose_AlsoOverlay(objs, r) ==
    [objs |-> Delete(DeleteAll(objs, r.vaos, "field"), r.borrowedVAO, "field"),
     r |-> [r EXCEPT !.vaos = <<>>]]

fieldDispose(objs, r) ==
    [objs |-> DeleteAll(objs, r.vaos, "field"),
     r |-> [r EXCEPT !.vaos = <<>>]]

\* new SolarRenderer(gl, solarProgram, lineProgram, earthVAO, n): setupSunMarker
SolarRendererNew(objs, solarProgram, lineProgram, earthVAO) ==
    [objs |-> AllocGeometry(objs, "solar"),
     r |-> [NullRenderer EXCEPT !.exists = TRUE,
                                !.programs = {solarProgram, lineProgram},
                                !.lineProgram = lineProgram,
                                !.borrowedVAO = earthVAO,
                                !.vao = Len(objs) + 3]]

\* SolarRenderer.updateSunPath: both buffers, then the old vertex array is
\* deleted, then the new one is created
solarUpdateSunPath(objs, r) ==
    LET buffers == Alloc(Alloc(objs, "buffer", "solar"), "buffer", "solar")
        freed == Delete(buffers, r.pathVAO, "solar")
    IN  [objs |-> Alloc(freed, "vao", "solar"),
         r |-> [r EXCEPT !.pathVAO = Len(objs) + 3]]

\* the number of draw calls renderSunPath issues
solarRenderSunPath(r) == IF r.pathVAO = 0 THEN 0 ELSE 1

solarDispose(objs, r) ==
    [objs |-> Delete(Delete(objs, r.vao, "solar"), r.pathVAO, "solar"),
     r |-> r]

\* new GPSRenderer(gl, lineProgram)
GPSRendererNew(objs, lineProgram) ==
    [objs |-> objs,
     r |-> [NullRenderer EXCEPT !.exists = TRUE, !.programs = {lineProgram},
                                !.lineProgram = lineProgram]]

\* GPSRenderer.updateVectors; nVectors is the number of stations whose
\* displacement is not tiny
gpsUpdateVectors(objs, r, nVectors) ==
    IF nVectors = 0 THEN [objs |-> objs, r |-> r]
    ELSE LET buffers == Alloc(Alloc(objs, "buffer", "gps"), "buffer", "gps")
             freed == Delete(buffers, r.pathVAO, "gps")
         IN  [objs |-> Alloc(freed, "vao", "gps"),
              r |-> [r EXCEPT !.pathVAO = Len(objs) + 3,
                              !.pathCount = 6 * nVectors]]

\* GPSRenderer.updateStations; vao is stationVAO, pathVAO is vectorVAO,
\* count is stationCount and pathCount is vectorCount
gpsUpdateStations(objs, r, nStations, nVectors) ==
    IF nStations = 0 THEN [objs |-> objs, r |-> r]
    ELSE LET buffers == Alloc(Alloc(objs, "buffer", "gps"), "buffer", "gps")
             freed == Delete(buffers, r.vao, "gps")
         IN  gpsUpdateVectors(Alloc(freed, "vao", "gps"),
                              [r EXCEPT !.vao = Len(objs) + 3,
                                        !.count = nStations], nVectors)

\* the number of draw calls renderStations and renderVectors issue
gpsRenderStations(r) == IF r.vao = 0 \/ r.count = 0 THEN 0 ELSE 1
gpsRenderVectors(r) == IF r.pathVAO = 0 \/ r.pathCount = 0 THEN 0 ELSE 1

gpsDispose(objs, r) ==
    [objs |-> Delete(Delete(objs, r.vao, "gps"), r.pathVAO, "gps"),
     r |-> r]

\* new ClimateRenderer(gl, climateProgram, lineProgram, earthVAO, n)
ClimateRendererNew(objs, climateProgram, lineProgram, earthVAO) ==
    [objs |-> objs,
     r |-> [NullRenderer EXCEPT !.exists = TRUE,
                                !.programs = {climateProgram, lineProgram},
                                !.lineProgram = lineProgram,
                                !.borrowedVAO = earthVAO]]

RECURSIVE AllocMarkers(_, _, _)
AllocMarkers(objs, n, owner) ==
    IF n = 0 THEN objs
    ELSE AllocMarkers(Alloc(Alloc(objs, "buffer", owner), "vao", owner), n - 1, owner)

\* ClimateRenderer.generateEventMarkers: one buffer and one vertex array per
\* event of ClimateModel.generateClimateEvents
climateGenerateEventMarkers(objs, r) ==
    LET cleared == DeleteAll(objs, r.vaos, "climate")
    IN  [objs |-> AllocMarkers(cleared, NumClimateEvents, "climate"),
         r |-> [r EXCEPT !.vaos = [i \in 1..NumClimateEvents |-> Len(objs) + 2 * i]]]

climateDispose(objs, r) ==
    [objs |-> DeleteAll(objs, r.vaos, "climate"),
     r |-> [r EXCEPT !.vaos = <<>>]]

\* FlatEarthEngine.init, the path on which nothing throws.  nLines is the
\* number of streamlines with at least two points the solver produced.  The
\* station population init() generates creates no GPU object; the simulator
\* is modelled on its own in the GPSSimulator section.
engineInit(nLines) ==
    LET s1 == loadAll(<<>>)
        prog == s1.programs
        shared == AllocGeometry(s1.objs, "engine")
        earthVAO == Len(shared)
        e == EarthRendererNew(shared, prog["earth"])
        f == EMFieldRendererNew(e.objs, prog["field"], prog["line"], earthVAO)
        so == SolarRendererNew(f.objs, prog["solar"], prog["line"], earthVAO)
        g == GPSRendererNew(so.objs, prog["line"])
        f2 == fieldGenerateStreamlines(g.objs, f.r, nLines)
        so2 == solarUpdateSunPath(f2.objs, so.r)
    IN  [objs |-> so2.objs, programs |-> prog, earthVAO |-> earthVAO,
         earth |-> e.r, field |-> f2.r, solar |-> so2.r, gps |-> g.r]

\* the sizes of what the last update operation was given
NoInput == [stations |-> 0, vectors |-> 0, lines |-> 0]

\* after new FlatEarthEngine() and before init() has run
InitGL ==
    /\ glObjects = <<>>
    /\ shaders = NoPrograms
    /\ earthR = NullRenderer
    /\ fieldR = NullRenderer
    /\ solarR = NullRenderer
    /\ gpsR = NullRenderer
    /\ climateR = NullRenderer
    /\ baseDisk = 0
    /\ enginePc = "constructed"
    /\ glOps = 0
    /\ glLast = [op |-> "none", who |-> "none", input |-> NoInput]
    /\ disposedR = {}

EngineInit ==
    \E nLines \in 0..MaxLines :
        LET i == engineInit(nLines)
        IN  /\ enginePc = "constructed"
            /\ glObjects' = i.objs
            /\ shaders' = i.programs
            /\ baseDisk' = i.earthVAO
            /\ earthR' = i.earth
            /\ fieldR' = i.field
            /\ solarR' = i.solar
            /\ gpsR' = i.gps
            /\ enginePc' = "running"
            /\ glLast' = [op |-> "init", who |-> "engine",
                          input |-> [NoInput EXCEPT !.lines = nLines]]
            /\ UNCHANGED <<climateR, glOps, disposedR, notGL>>

\* the engine is between two event handlers
Idle == enginePc \in {"running", "disposed"}

\* a ClimateRenderer is built on the engine's programs and shared geometry
NewClimateRenderer ==
    LET c == ClimateRendererNew(glObjects, shaders["earth"], shaders["line"], baseDisk)
    IN  /\ enginePc = "running"
        /\ ~climateR.exists
        /\ glOps < MaxGlOps
        /\ climateR' = c.r
        /\ glOps' = glOps + 1
        /\ glLast' = [op |-> "new", who |-> "climate", input |-> NoInput]
        /\ UNCHANGED <<glObjects, shaders, earthR, fieldR, solarR, gpsR,
                       baseDisk, enginePc, disposedR, notGL>>

GlStep(objs, op, who, input) ==
    /\ Idle
    /\ glOps < MaxGlOps
    /\ glObjects' = objs
    /\ glOps' = glOps + 1
    /\ glLast' = [op |-> op, who |-> who, input |-> input]
    /\ disposedR' = IF op = "dispose" THEN disposedR \cup {who} ELSE disposedR
    /\ UNCHANGED <<shaders, baseDisk, enginePc, notGL>>

FieldGenerateStreamlines ==
    \E n \in 0..MaxLines :
        LET res == fieldGenerateStreamlines(glObjects, fieldR, n)
        IN  /\ fieldR.exists
            /\ GlStep(res.objs, "update", "field",
                      [stations |-> 0, vectors |-> 0, lines |-> n])
            /\ fieldR' = res.r
            /\ UNCHANGED <<earthR, solarR, gpsR, climateR>>

SolarUpdateSunPath ==
    LET res == solarUpdateSunPath(glObjects, solarR)
    IN  /\ solarR.exists
        /\ GlStep(res.objs, "update", "solar", NoInput)
        /\ solarR' = res.r
        /\ UNCHANGED <<earthR, fieldR, gpsR, climateR>>

GpsUpdateStations ==
    \E nStations \in 0..1, nVectors \in 0..1 :
        LET res == gpsUpdateStations(glObjects, gpsR, nStations, nVectors)
        IN  /\ gpsR.exists
            /\ nVectors <= nStations
            /\ GlStep(res.objs, "update", "gps",
                      [stations |-> nStations, vectors |-> nVectors, lines |-> 0])
            /\ gpsR' = res.r
            /\ UNCHANGED <<earthR, fieldR, solarR, climateR>>

ClimateGenerateEventMarkers ==
    LET res == climateGenerateEventMarkers(glObjects, climateR)
    IN  /\ climateR.exists
        /\ GlStep(res.objs, "update", "climate", NoInput)
        /\ climateR' = res.r
        /\ UNCHANGED <<earthR, fieldR, solarR, gpsR>>

EarthDispose ==
    LET res == earthDispose(glObjects, earthR)
    IN  /\ earthR.exists
        /\ GlStep(res.objs, "dispose", "earth", NoInput)
        /\ earthR' = res.r
        /\ UNCHANGED <<fieldR, solarR, gpsR, climateR>>

FieldDispose ==
    LET res == fieldDispose(glObjects, fieldR)
    IN  /\ fieldR.exists
        /\ GlStep(res.objs, "dispose", "field", NoInput)
        /\ fieldR' = res.r
        /\ UNCHANGED <<earthR, solarR, gpsR, climateR>>

SolarDispose ==
    LET res == solarDispose(glObjects, solarR)
    IN  /\ solarR.exists
        /\ GlStep(res.objs, "dispose", "solar", NoInput)
        /\ solarR' = res.r
        /\ UNCHANGED <<earthR, fieldR, gpsR, climateR>>

GpsDispose ==
    LET res == gpsDispose(glObjects, gpsR)
    IN  /\ gpsR.exists
        /\ GlStep(res.objs, "dispose", "gps", NoInput)
        /\ gpsR' = res.r
        /\ UNCHANGED <<earthR, fieldR, solarR, climateR>>

ClimateDispose ==
    LET res == climateDispose(glObjects, climateR)
    IN  /\ climateR.exists
        /\ GlStep(res.objs, "dispose", "climate", NoInput)
        /\ climateR' = res.r
        /\ UNCHANGED <<earthR, fieldR, solarR, gpsR>>

(***************************************************************************)
(* FlatEarthEngine.dispose runs to completion without interleaving; its    *)
(* five calls are taken one step each so that the states between them are  *)
(* states of the model.  Nothing else is enabled until it has finished.    *)
(***************************************************************************)
EngineDisposeStep(objs, from, to, who) ==
    /\ enginePc = from
    /\ glObjects' = objs
    /\ enginePc' = to
    /\ glLast' = [op |-> "dispose", who |-> who, input |-> NoInput]
    /\ disposedR' = disposedR \cup {who}
    /\ UNCHANGED <<baseDisk, glOps, climateR, notGL>>

\* cancelAnimationFrame, then this.shaders.dispose()
EngineDisposeShaders ==
    LET res == shadersDispose(glObjects, shaders)
    IN  /\ enginePc = "running"
        /\ glObjects' = res.objs
        /\ shaders' = res.programs
        /\ enginePc' = "dispose_earth"
        /\ glLast' = [op |-> "dispose", who |-> "shaders", input |-> NoInput]
        /\ UNCHANGED <<earthR, fieldR, solarR, gpsR, climateR, baseDisk,
                       glOps, disposedR, notGL>>

EngineDisposeEarth ==
    LET res == earthDispose(glObjects, earthR)
    IN  /\ EngineDisposeStep(res.objs, "dispose_earth", "dispose_field", "earth")
        /\ earthR' = res.r
        /\ UNCHANGED <<shaders, fieldR, solarR, gpsR>>

EngineDisposeField ==
    LET res == fieldDispose(glObjects, fieldR)
    IN  /\ EngineDisposeStep(res.objs, "dispose_field", "dispose_solar", "field")
        /\ fieldR' = res.r
        /\ UNCHANGED <<shaders, earthR, solarR, gpsR>>

EngineDisposeSolar ==
    LET res == solarDispose(glObjects, solarR)
    IN  /\ EngineDisposeStep(res.objs, "dispose_solar", "dispose_gps", "solar")
        /\ solarR' = res.r
        /\ UNCHANGED <<shaders, earthR, fieldR, gpsR>>

EngineDisposeGps ==
    LET res == gpsDispose(glObjects, gpsR)
    IN  /\ EngineDisposeStep(res.objs, "dispose_gps", "disposed", "gps")
        /\ gpsR' = res.r
        /\ UNCHANGED <<shaders, earthR, fieldR, solarR>>

NextGL ==
    \/ EngineInit
    \/ NewClimateRenderer
    \/ FieldGenerateStreamlines
    \/ SolarUpdateSunPath
    \/ GpsUpdateStations
    \/ ClimateGenerateEventMarkers
    \/ EarthDispose
    \/ FieldDispose
    \/ SolarDispose
    \/ GpsDispose
    \/ ClimateDispose
    \/ EngineDisposeShaders
    \/ EngineDisposeEarth
    \/ EngineDisposeField
    \/ EngineDisposeSolar
    \/ EngineDisposeGps

(***************************************************************************)
(* EMFieldSolver streamlines (src/src/core/em-field.ts)                    *)
(*                                                                         *)
(* The field is B = (B0 / r^2) (cos t, sin t) in the polar basis at angle  *)
(* t = atan2(y, x), which is (B0 / r^2) (cos 2t, sin 2t) in Cartesian      *)
(* coordinates; its direction is rational in x and y:                      *)
(* cos 2t = (x^2 - y^2) / r^2 and sin 2t = 2xy / r^2.                      *)
(***************************************************************************)
MaxStreamSteps == 3

Vec(x, y) == [x |-> x, y |-> y]

RSign(a) == IF a[1] > 0 THEN One ELSE IF a[1] < 0 THEN RInt(-1) ELSE Zero

\* a > n for a rational a >= 0 and a natural n, without large products
RGtNat(a, n) ==
    \/ a[1] \div a[2] > n
    \/ a[1] \div a[2] = n /\ a[1] % a[2] > 0

\* normalize(getFieldVectorCartesian(pos)): atan2(0, 0) is 0, and the radius
\* clamp Math.max(r, 0.1) changes the magnitude only
normalizedField(B0, pos) ==
    LET xx == RMul(pos.x, pos.x)
        yy == RMul(pos.y, pos.y)
        rr == RAdd(xx, yy)
        s == RSign(B0)
    IN  IF s = Zero THEN Vec(Zero, Zero)
        ELSE IF rr = Zero THEN Vec(s, Zero)
        ELSE Vec(RMul(s, RDiv(RSub(xx, yy), rr)),
                 RMul(s, RDiv(RMul(RInt(2), RMul(pos.x, pos.y)), rr)))

\* one RK4 step of integrateStreamline's loop body
rk4Step(B0, current, stepSize) ==
    LET half == RDiv(stepSize, RInt(2))
        k1 == normalizedField(B0, current)
        mid1 == Vec(RAdd(current.x, RMul(half, k1.x)),
                    RAdd(current.y, RMul(half, k1.y)))
        k2 == normalizedField(B0, mid1)
        mid2 == Vec(RAdd(current.x, RMul(half, k2.x)),
                    RAdd(current.y, RMul(half, k2.y)))
        k3 == normalizedField(B0, mid2)
        end == Vec(RAdd(current.x, RMul(stepSize, k3.x)),
                   RAdd(current.y, RMul(stepSize, k3.y)))
        k4 == normalizedField(B0, end)
        sixth == RDiv(stepSize, RInt(6))
        sx == RAdd(RAdd(k1.x, RMul(RInt(2), k2.x)),
                   RAdd(RMul(RInt(2), k3.x), k4.x))
        sy == RAdd(RAdd(k1.y, RMul(RInt(2), k2.y)),
                   RAdd(RMul(RInt(2), k3.y), k4.y))
    IN  Vec(RAdd(current.x, RMul(sixth, sx)), RAdd(current.y, RMul(sixth, sy)))

leavesDomain_Never(p) == FALSE

\* r > ANTARCTIC_RIM_RADIUS || r < 1 for r = sqrt(x^2 + y^2), on squares
leavesDomain(p) ==
    LET rr == RAdd(RMul(p.x, p.x), RMul(p.y, p.y))
    IN  \/ RGtNat(rr, ANTARCTIC_RIM_RADIUS * ANTARCTIC_RIM_RADIUS)
        \/ rr[1] < rr[2]

\* the for loop of integrateStreamline from iteration step on
RECURSIVE integrateLoop(_, _, _, _, _, _)
integrateLoop(B0, points, current, step, maxSteps, stepSize) ==
    IF step >= maxSteps THEN points
    ELSE LET next == rk4Step(B0, current, stepSize)
             pushed == Append(points, next)
         IN  IF leavesDomain(next) THEN pushed
             ELSE integrateLoop(B0, pushed, next, step + 1, maxSteps, stepSize)

integrateStreamline(B0, start, maxSteps, stepSize) ==
    integrateLoop(B0, <<start>>, start, 0, maxSteps, stepSize)

\* cos and sin of (i / count) * 2 pi for the counts that give quarter turns
TurnCos(i, count) ==
    LET q == (4 * i) \div count
    IN  CASE q = 0 -> One [] q = 1 -> Zero [] q = 2 -> RInt(-1) [] q = 3 -> Zero

TurnSin(i, count) ==
    LET q == (4 * i) \div count
    IN  CASE q = 0 -> Zero [] q = 1 -> One [] q = 2 -> Zero [] q = 3 -> RInt(-1)

solverGenerateStreamlines(B0, count, startRadius, maxSteps, stepSize) ==
    [k \in 1..count |->
        integrateStreamline(
            B0,
            Vec(RMul(startRadius, TurnCos(k - 1, count)),
                RMul(startRadius, TurnSin(k - 1, count))),
            maxSteps, stepSize)]

B0Set == {Zero, RInt(1000), RInt(-1000)}
CountSet == {1, 2, 4}
StepSizeSet == {RInt(10), RInt(50), RInt(200), RInt(10000)}
\* the seeds off the x axis are followed for one step of 200 only: the
\* exact coordinates of their other points do not fit the checker's integers
StreamlineInputs ==
    {a \in [B0 : B0Set, count : CountSet, maxSteps : 0..MaxStreamSteps,
            stepSize : StepSizeSet] :
        a.count = 4 => (a.maxSteps <= 1 /\ a.stepSize = RInt(200))}
DefaultStreamlineInput ==
    [B0 |-> RInt(1000), count |-> 1, maxSteps |-> MaxStreamSteps,
     stepSize |-> RInt(10)]

\* an EMFieldSolver and the arguments of the next generateStreamlines call
InitStreamline(inputs) ==
    sl \in {[args |-> a, done |-> FALSE, streamlines |-> <<>>] : a \in inputs}

GenerateStreamlines ==
    /\ ~sl.done
    /\ sl' = [sl EXCEPT
                 !.done = TRUE,
                 !.streamlines =
                     solverGenerateStreamlines(sl.args.B0, sl.args.count, RInt(100),
                                               sl.args.maxSteps, sl.args.stepSize)]
    /\ UNCHANGED notStreamline

NextStreamline ==
    \/ GenerateStreamlines


(***************************************************************************)
(* Startup (src/src/main.ts, src/unnamed/part_001,                         *)
(*          src/src/rendering/webgl-utils.ts)                              *)
(*                                                                         *)
(* new FlatEarthEngine() in the DOMContentLoaded handler, taken one GL     *)
(* compile or link at a time.  The outcome of each GL call (success, a     *)
(* null object, a failure with an info log) is an input.                   *)
(***************************************************************************)
MaxFrames == 3
NumPrograms == 4

InfoLogSet == {"ERROR: 0:1: syntax error", "ERROR: 0:7: undeclared identifier",
               "ERROR: varying mismatch"}
GLOutcomes == {[kind |-> "ok", info |-> "none"], [kind |-> "null", info |-> "none"]}
                  \cup {[kind |-> "fail", info |-> i] : i \in InfoLogSet}

NoError == [text |-> "none", info |-> "none"]
NoMessage == [title |-> "none", error |-> NoError]

BootNew ==
    [pc |-> "new", loadingEl |-> FALSE, program |-> 1, liveShaders |-> 0,
     programs |-> 0, diag |-> "none", thrown |-> NoError, logged |-> NoError,
     shown |-> NoMessage, animating |-> FALSE, frames |-> 0]

\* the catch block of the DOMContentLoaded handler
startCatch(b, error) ==
    [b EXCEPT !.pc = "failed", !.thrown = error, !.logged = error,
              !.shown = IF b.loadingEl
                        THEN [title |-> "Failed to Start", error |-> error]
                        ELSE @]

initCatch_StartsLoop(b, error) ==
    [b EXCEPT !.pc = "failed", !.thrown = error, !.logged = error,
              !.shown = IF b.loadingEl
                        THEN [title |-> "Initialization Failed", error |-> error]
                        ELSE @,
              !.animating = TRUE, !.frames = 1]

\* the catch block of init(); the catch of loadAll has logged and rethrown
initCatch(b, error) ==
    [b EXCEPT !.pc = "failed", !.thrown = error, !.logged = error,
              !.shown = IF b.loadingEl
                        THEN [title |-> "Initialization Failed", error |-> error]
                        ELSE @]

\* compileShader under init(): the shader is deleted before the throw
compileShader(b, outcome, nextPc) ==
    CASE outcome.kind = "ok" ->
            [b EXCEPT !.liveShaders = @ + 1, !.pc = nextPc]
      [] outcome.kind = "null" ->
            initCatch(b, [text |-> "Failed to create shader", info |-> "none"])
      [] outcome.kind = "fail" ->
            initCatch([b EXCEPT !.diag = outcome.info],
                      [text |-> "Shader compilation failed", info |-> outcome.info])

\* linkProgram and the rest of createShaderProgram under init()
linkProgram(b, outcome) ==
    CASE outcome.kind = "ok" ->
            [b EXCEPT !.liveShaders = @ - 2,
                      !.programs = @ + 1,
                      !.program = IF @ = NumPrograms THEN @ ELSE @ + 1,
                      !.pc = IF b.program = NumPrograms THEN "renderers" ELSE "vertex"]
      [] outcome.kind = "null" ->
            initCatch(b, [text |-> "Failed to create program", info |-> "none"])
      [] outcome.kind = "fail" ->
            initCatch([b EXCEPT !.diag = outcome.info],
                      [text |-> "Program linking failed", info |-> outcome.info])

InitBoot == boot = BootNew

\* the constructor up to this.init(): the canvas, the context
BootConstruct ==
    \E loading \in BOOLEAN, canvas \in BOOLEAN, context \in BOOLEAN :
        LET b == [boot EXCEPT !.loadingEl = loading]
        IN  /\ boot.pc = "new"
            /\ boot' =
                 IF ~canvas
                 THEN startCatch(b, [text |-> "Canvas element not found",
                                     info |-> "none"])
                 ELSE IF ~context
                 THEN startCatch([b EXCEPT !.diag = "WebGL 2.0 not supported"],
                                 [text |-> "WebGL 2.0 not supported",
                                  info |-> "none"])
                 ELSE [b EXCEPT !.pc = "vertex"]
            /\ UNCHANGED notBoot

BootCompileVertex ==
    \E outcome \in GLOutcomes :
        /\ boot.pc = "vertex"
        /\ boot' = compileShader(boot, outcome, "fragment")
        /\ UNCHANGED notBoot

BootCompileFragment ==
    \E outcome \in GLOutcomes :
        /\ boot.pc = "fragment"
        /\ boot' = compileShader(boot, outcome, "link")
        /\ UNCHANGED notBoot

BootLink ==
    \E outcome \in GLOutcomes :
        /\ boot.pc = "link"
        /\ boot' = linkProgram(boot, outcome)
        /\ UNCHANGED notBoot

\* the rest of init(): renderers, data, setupUI, setupEventListeners, and
\* animate(), which runs the first frame and requests the next one
BootFinish ==
    /\ boot.pc = "renderers"
    /\ boot' = [boot EXCEPT !.pc = "running", !.animating = TRUE, !.frames = 1]
    /\ UNCHANGED notBoot

\* the requestAnimationFrame callback
BootFrame ==
    /\ boot.animating
    /\ boot.frames < MaxFrames
    /\ boot' = [boot EXCEPT !.frames = @ + 1]
    /\ UNCHANGED notBoot

NextBoot ==
    \/ BootConstruct
    \/ BootCompileVertex
    \/ BootCompileFragment
    \/ BootLink
    \/ BootFinish
    \/ BootFrame


(***************************************************************************)
(* UniformManager and the render methods that set uniforms                 *)
(*                                                                         *)
(* uni.lookups counts the gl.getUniformLocation calls per program and      *)
(* uniform name, uni.active is the set of uniforms the linked programs      *)
(* expose (getUniformLocation returns null for the others), uni.m is the   *)
(* UniformManager most recently constructed.  The render methods are       *)
(* modelled on the path that draws, past their empty-buffer returns.       *)
(***************************************************************************)
MaxUniOps == 3

EarthUniforms ==
    <<"u_viewProjection", "u_time", "u_expansionRate", "u_maxRadius",
      "u_diskColor", "u_gridColor", "u_rimColor", "u_gridSpacing", "u_showGrid">>

FieldUniforms ==
    <<"u_viewProjection", "u_fieldStrength", "u_time", "u_fieldColor",
      "u_maxRadius">>

SolarUniforms ==
    <<"u_viewProjection", "u_sunPosition", "u_illuminationAngle", "u_dayColor",
      "u_nightColor", "u_maxRadius">>

ClimateUniforms ==
    <<"u_viewProjection", "u_time", "u_expansionRate", "u_visualizationMode",
      "u_heatingZoneMin", "u_heatingZoneMax", "u_coolingZoneMin",
      "u_coolingZoneMax">>

LineUniforms == <<"u_viewProjection">>

EventUniforms ==
    <<"u_viewProjection">> \o [i \in 1..NumClimateEvents |-> "u_color"]

Range(s) == {s[i] : i \in DOMAIN s}

UniformKeys ==
    ({"earth"} \X Range(EarthUniforms))
        \cup ({"field"} \X Range(FieldUniforms))
        \cup ({"solar"} \X Range(SolarUniforms))
        \cup ({"climate"} \X Range(ClimateUniforms))
        \cup ({"line"} \X {"u_viewProjection", "u_color"})

UniformManagerNew(program) ==
    [program |-> program, uniformLocations |-> {}]

\* UniformManager.getLocation, as called by every setter
getLocation(u, name) ==
    IF name \in u.m.uniformLocations
    THEN u
    ELSE [u EXCEPT
            !.lookups[<<u.m.program, name>>] = @ + 1,
            !.m.uniformLocations =
                IF <<u.m.program, name>> \in u.active THEN @ \cup {name} ELSE @]

RECURSIVE setUniforms(_, _)
setUniforms(u, names) ==
    IF names = <<>> THEN u
    ELSE setUniforms(getLocation(u, Head(names)), Tail(names))

\* const uniforms = new UniformManager(gl, program); uniforms.set...(...)
renderWith(u, program, names) ==
    setUniforms([u EXCEPT !.m = UniformManagerNew(program)], names)

\* the sun colour is looked up with gl.getUniformLocation directly
solarRenderSunMarker(u) ==
    [renderWith(u, "line", LineUniforms) EXCEPT
        !.lookups[<<"line", "u_color">>] = @ + 1]

ActiveSets == {UniformKeys, UniformKeys \ {<<"line", "u_color">>}}

InitUniforms(activeSets) ==
    \E a \in activeSets :
        uni = [lookups |-> [k \in UniformKeys |-> 0], active |-> a,
               m |-> UniformManagerNew("none"), ops |-> 0, op |-> "none"]

UniStep(u, op) ==
    /\ uni.ops < MaxUniOps
    /\ uni' = [u EXCEPT !.ops = @ + 1, !.op = op]
    /\ UNCHANGED notUniforms

EarthRender == UniStep(renderWith(uni, "earth", EarthUniforms), "earthRender")
FieldRenderOverlay ==
    UniStep(renderWith(uni, "field", FieldUniforms), "fieldRenderOverlay")
FieldRenderStreamlines ==
    UniStep(renderWith(uni, "line", LineUniforms), "fieldRenderStreamlines")
SolarRenderIllumination ==
    UniStep(renderWith(uni, "solar", SolarUniforms), "solarRenderIllumination")
SolarRenderSunMarker == UniStep(solarRenderSunMarker(uni), "solarRenderSunMarker")
SolarRenderSunPath ==
    UniStep(renderWith(uni, "line", LineUniforms), "solarRenderSunPath")
GpsRenderStations ==
    UniStep(renderWith(uni, "line", LineUniforms), "gpsRenderStations")
GpsRenderVectors ==
    UniStep(renderWith(uni, "line", LineUniforms), "gpsRenderVectors")
ClimateRenderOverlay ==
    UniStep(renderWith(uni, "climate", ClimateUniforms), "climateRenderOverlay")
ClimateRenderEvents ==
    UniStep(renderWith(uni, "line", EventUniforms), "climateRenderEvents")

NextUniforms ==
    \/ EarthRender
    \/ FieldRenderOverlay
    \/ FieldRenderStreamlines
    \/ SolarRenderIllumination
    \/ SolarRenderSunMarker
    \/ SolarRenderSunPath
    \/ GpsRenderStations
    \/ GpsRenderVectors
    \/ ClimateRenderOverlay
    \/ ClimateRenderEvents


(***************************************************************************)
(* angularDifference                                                       *)
(*                                                                         *)
(* An angle is an integer k standing for k * pi / HalfTurn, so pi is       *)
(* HalfTurn and a full turn is 2 * HalfTurn.                               *)
(***************************************************************************)
MaxAngle == 8
HalfTurn == 4
MathPI == HalfTurn

RECURSIVE whileAbovePi(_)
whileAbovePi(diff) ==
    IF diff > MathPI THEN whileAbovePi(diff - 2 * MathPI) ELSE diff

RECURSIVE whileBelowMinusPi(_)
whileBelowMinusPi(diff) ==
    IF diff < -MathPI THEN whileBelowMinusPi(diff + 2 * MathPI) ELSE diff

angularDifference(theta1, theta2) ==
    whileBelowMinusPi(whileAbovePi(theta2 - theta1))

AngleSet == (-MaxAngle)..MaxAngle

InitAngles(angles) ==
    \E t1 \in angles, t2 \in angles :
        ang = [theta1 |-> t1, theta2 |-> t2, done |-> FALSE, diff |-> 0]

AngularDifference ==
    /\ ~ang.done
    /\ ang' = [ang EXCEPT !.done = TRUE,
                          !.diff = angularDifference(ang.theta1, ang.theta2)]
    /\ UNCHANGED notAngles

NextAngles == AngularDifference


(***************************************************************************)
(* FlatEarthEngine: simulation state, controls and the frame loop          *)
(* (src/src/main.ts)                                                       *)
(*                                                                         *)
(* sim holds the engine's SimulationState, its view options, its Camera,   *)
(* the rates and strengths of its solvers, the stations of its             *)
(* GPSSimulator, the station positions in the GPSRenderer's buffers and    *)
(* the day the SolarRenderer's sun path was computed for.  Simulation time *)
(* is in years; a frame's deltaTime is given in years of wall-clock time.  *)
(***************************************************************************)
MaxSimOps == 3
VORTEX_STRENGTH_B0 == 1000
DAYS_PER_YEAR == Rat(9131, 25)

RECURSIVE Pow10(_)
Pow10(v) == IF v = 0 THEN 1 ELSE 10 * Pow10(v - 1)

\* Math.floor(years * 365.24), for years >= 0
FloorDays(years) ==
    LET days == RMul(years, DAYS_PER_YEAR)
    IN  days[1] \div days[2]

Positions(sts) == [i \in 1..Len(sts) |-> sts[i].position]

SimulationStateNew ==
    [time |-> Zero, timeScale |-> One, expansionRate |-> RATE,
     fieldStrength |-> One, isPaused |-> FALSE]

NoFrame ==
    [paused |-> FALSE, timeBefore |-> Zero, stationsBefore |-> <<>>,
     stationsDrawn |-> <<>>, pathDay |-> 0, markerDay |-> 0]

\* timeScaleSlider 'input': the slider holds the exponent
onTimeScaleInput(e, v) == [e EXCEPT !.state.timeScale = RInt(Pow10(v))]

\* expansionRateSlider 'input': the slider holds cm/yr
onExpansionRateInput(e, v) ==
    LET rate == RDiv(v, RInt(100))
    IN  [e EXCEPT !.state.expansionRate = v,
                  !.expansionK = rate,
                  !.gpsRate = rate,
                  !.stations = setExpansionRate(e.stations, rate)]

\* fieldStrengthSlider 'input'
onFieldStrengthInput(e, v) ==
    LET strength == RMul(RInt(VORTEX_STRENGTH_B0), v)
    IN  [e EXCEPT !.state.fieldStrength = v,
                  !.B0 = strength,
                  !.streamlinesB0 = strength]

\* simTimeSlider 'input'
onSimTimeInput(e, v) ==
    [e EXCEPT !.state.time = v, !.sunPathDay = FloorDays(v)]

onPlayPause(e) == [e EXCEPT !.state.isPaused = ~e.state.isPaused]

onViewTab(e, view) ==
    [e EXCEPT !.viewMode = view,
              !.showStreamlines = (view = "field"),
              !.showSunPath = (view = "solar"),
              !.showGPSVectors = (view = "gps")]

\* the reset button's click handler: the fields, then the four sliders are
\* set and their 'input' events dispatched, then the sun path of day 0
onReset(e) ==
    LET e1 == [e EXCEPT !.state.time = Zero,
                        !.state.timeScale = One,
                        !.state.expansionRate = RATE,
                        !.state.fieldStrength = One,
                        !.stations = reset(e.stations, e.gpsRate),
                        !.camera = fitEarth(e.camera, RInt(ANTARCTIC_RIM_RADIUS))]
        e2 == onTimeScaleInput(e1, 0)
        e3 == onExpansionRateInput(e2, Rat(33, 10))
        e4 == onFieldStrengthInput(e3, One)
        e5 == onSimTimeInput(e4, Zero)
    IN  [e5 EXCEPT !.sunPathDay = 0]

\* GPSRenderer.updateStations as the frame loop sees it: the positions in
\* the station buffers
uploadStations(e) ==
    IF Len(e.stations) = 0 THEN e
    ELSE [e EXCEPT !.uploaded = [vao |-> TRUE, positions |-> Positions(e.stations)]]

update_IgnoresPause(e, frameYears, random) ==
    LET deltaYears == RMul(frameYears, e.state.timeScale)
        e1 == [e EXCEPT !.state.time = RAdd(e.state.time, deltaYears),
                        !.stations = updatePositions(e.stations, e.gpsRate, deltaYears)]
    IN  IF random THEN uploadStations(e1) ELSE e1

\* random: Math.random() < 0.1
update(e, frameYears, random) ==
    IF e.state.isPaused THEN e
    ELSE LET deltaYears == RMul(frameYears, e.state.timeScale)
             e1 == [e EXCEPT !.state.time = RAdd(e.state.time, deltaYears),
                             !.stations = updatePositions(e.stations, e.gpsRate, deltaYears)]
         IN  IF random THEN uploadStations(e1) ELSE e1

\* render(): the matrices are read by every draw; what the GPS and solar
\* views put on screen is recorded in e.frame
render(e) ==
    [e EXCEPT
        !.camera = updateMatrices(e.camera),
        !.frame.stationsDrawn =
            IF e.viewMode = "gps" /\ e.uploaded.vao /\ Len(e.uploaded.positions) > 0
            THEN e.uploaded.positions ELSE <<>>,
        !.frame.pathDay = e.sunPathDay,
        !.frame.markerDay = FloorDays(e.state.time)]

animate(e, frameYears, random) ==
    LET before == [e EXCEPT !.frame = [NoFrame EXCEPT
                                !.paused = e.state.isPaused,
                                !.timeBefore = e.state.time,
                                !.stationsBefore = e.stations]]
    IN  render(update(before, frameYears, random))

\* the positions generateStations(1000) draws with Math.random
EngineSamples ==
    <<[r |-> RInt(10), theta |-> 0], [r |-> RInt(5), theta |-> 0]>>

TimeScaleSliderSet == {0, 1}
ExpansionSliderSet == {Zero, Rat(33, 10), RInt(10)}
FieldSliderSet == {Zero, RInt(2)}
SimTimeSliderSet == {RInt(50), RInt(200)}
FrameYearsSet == {Zero, RInt(100)}
ViewModes == {"earth", "field", "solar", "climate", "gps"}

\* the constructor and init() up to the first animate() call; v is the value
\* the page gives the time-scale slider
FlatEarthEngineNew(v) ==
    LET e == [state |-> SimulationStateNew,
              viewMode |-> "earth",
              showStreamlines |-> FALSE,
              showSunPath |-> FALSE,
              showGPSVectors |-> FALSE,
              camera |-> fitEarth(CameraNew(One), RInt(ANTARCTIC_RIM_RADIUS)),
              expansionK |-> RATE,
              B0 |-> RInt(VORTEX_STRENGTH_B0),
              streamlinesB0 |-> RInt(VORTEX_STRENGTH_B0),
              stations |-> generateStations(RATE, EngineSamples),
              gpsRate |-> RATE,
              uploaded |-> [vao |-> FALSE, positions |-> <<>>],
              sunPathDay |-> 0,
              started |-> FALSE,
              frame |-> NoFrame]
    IN  [onTimeScaleInput(e, v) EXCEPT !.camera = setAspect(@, One)]

InitSim(sliderValues) ==
    \E v \in sliderValues :
        /\ sim = FlatEarthEngineNew(v)
        /\ simStartup = sim.state
        /\ simOp = "new"
        /\ simOps = 0

SimStep(e, op) ==
    /\ simOps < MaxSimOps
    /\ sim' = e
    /\ simOp' = op
    /\ simOps' = simOps + 1
    /\ UNCHANGED <<simStartup, notSim>>

\* a control is used between two frames
Control(e, op) == sim.started /\ SimStep(e, op)

Animate ==
    \E frameYears \in FrameYearsSet, random \in BOOLEAN :
        SimStep([animate(sim, frameYears, random) EXCEPT !.started = TRUE], "frame")
TimeScaleInput ==
    \E v \in TimeScaleSliderSet : Control(onTimeScaleInput(sim, v), "timeScale")
ExpansionRateInput ==
    \E v \in ExpansionSliderSet : Control(onExpansionRateInput(sim, v), "expansionRate")
FieldStrengthInput ==
    \E v \in FieldSliderSet : Control(onFieldStrengthInput(sim, v), "fieldStrength")
SimTimeInput ==
    \E v \in SimTimeSliderSet : Control(onSimTimeInput(sim, v), "simTime")
PlayPause == Control(onPlayPause(sim), "playPause")
ViewTab == \E view \in ViewModes : Control(onViewTab(sim, view), "viewTab")
ResetClick == Control(onReset(sim), "reset")

NextSim ==
    \/ Animate
    \/ TimeScaleInput
    \/ ExpansionRateInput
    \/ FieldStrengthInput
    \/ SimTimeInput
    \/ PlayPause
    \/ ViewTab
    \/ ResetClick


(***************************************************************************)
(* SolarSimulator.getDayLengthHours (src/src/core/solar.ts)                *)
(*                                                                         *)
(* The day's samples are taken at dayStart + i / SamplesPerDay; the code   *)
(* takes 288, the model SamplesPerDay, an even number so that midday       *)
(* (dayStart + 0.5) is sample SamplesPerDay / 2 as it is sample 144 in the *)
(* code.  getIlluminationIntensity is an input: intensity[i] is its value  *)
(* at sample i, below, at or above the 0.2 threshold.                      *)
(***************************************************************************)
SamplesPerDay == 4
THRESHOLD == Rat(1, 5)

IntensitySet == {Rat(1, 20), THRESHOLD, One}
DayStartSet == {-1, 0, 1}

SampleTime(dayStart, i) == RAdd(RInt(dayStart), Rat(i, SamplesPerDay))

\* the body of the sampling loop, from sample i on; sunriseTime and
\* sunsetTime are -1 until found
RECURSIVE sampleLoop(_, _, _, _, _)
sampleLoop(dayStart, intensity, i, sunriseTime, sunsetTime) ==
    IF i >= SamplesPerDay THEN <<sunriseTime, sunsetTime>>
    ELSE LET t == SampleTime(dayStart, i)
             sunrise1 == IF sunriseTime = RInt(-1) /\ RLt(THRESHOLD, intensity[i])
                         THEN t ELSE sunriseTime
             sunset1 == IF sunrise1 # RInt(-1) /\ sunsetTime = RInt(-1)
                             /\ RLt(intensity[i], THRESHOLD)
                        THEN t ELSE sunsetTime
         IN  sampleLoop(dayStart, intensity, i + 1, sunrise1, sunset1)

getDayLengthHours(dayStart, intensity) ==
    LET found == sampleLoop(dayStart, intensity, 0, RInt(-1), RInt(-1))
        sunriseTime == found[1]
        sunsetTime == found[2]
    IN  IF sunriseTime = RInt(-1) \/ sunsetTime = RInt(-1)
        THEN LET middayIntensity == intensity[SamplesPerDay \div 2]
             IN  IF RLt(THRESHOLD, middayIntensity) THEN RInt(24) ELSE Zero
        ELSE RMul(RSub(sunsetTime, sunriseTime), RInt(24))

InitDay(dayStarts, intensities) ==
    \E d \in dayStarts, f \in [0..(SamplesPerDay - 1) -> intensities] :
        day = [dayStart |-> d, intensity |-> f, done |-> FALSE, hours |-> Zero]

GetDayLengthHours ==
    /\ ~day.done
    /\ day' = [day EXCEPT !.done = TRUE,
                          !.hours = getDayLengthHours(day.dayStart, day.intensity)]
    /\ UNCHANGED notDay

NextDay == GetDayLengthHours


(***************************************************************************)
(* ExpansionEngine.getExpandedRadius against repeated                      *)
(* GPSSimulator.updatePositions (src/src/core/solar.ts)                    *)
(*                                                                         *)
(* expn holds one GPSSimulator with a single station, its rate, and the    *)
(* deltaTime of every updatePositions call made since generateStations.    *)
(***************************************************************************)
MaxExpSteps == 3
KM_TO_METERS == 1000

\* ExpansionEngine(k).getExpandedRadius(r0, t), with t0 = 0
getExpandedRadius(k, r0, t) ==
    RMul(r0, RAdd(One, RDiv(RMul(RMul(k, RSub(t, Zero)), RInt(KM_TO_METERS)),
                            RInt(1000))))

ExpRateSet == {Zero, Rat(1, 10), Rat(1, 5)}
ExpDtSet == {Zero, One, RInt(2), RInt(-1)}
DefaultExpSample == [r |-> RInt(1000), theta |-> 0]
ExpSampleSet == {DefaultExpSample, [r |-> RInt(6000), theta |-> 30]}

InitExpansion(rates, samples) ==
    \E rate \in rates, sample \in samples :
        expn = [rate |-> rate,
                stations |-> generateStations(rate, <<sample>>),
                dts |-> <<>>]

AdvectStations ==
    \E dt \in ExpDtSet :
        /\ Len(expn.dts) < MaxExpSteps
        /\ expn' = [expn EXCEPT
                        !.stations = updatePositions(expn.stations, expn.rate, dt),
                        !.dts = Append(@, dt)]
        /\ UNCHANGED notExpansion

NextExpansion == AdvectStations


(***************************************************************************)
(* generateCircleVertices (src/src/rendering/webgl-utils.ts)               *)
(*                                                                         *)
(* A typed array is a function on 0..length-1, filled with zeros when      *)
(* created; a write past its end is dropped, as Float32Array does.  A      *)
(* coordinate is kept as the expression that computed it: fn(angle i of    *)
(* segments) * radius.                                                     *)
(***************************************************************************)
MaxSegments == 12

FloatZero == [fn |-> "zero", i |-> 0, radius |-> 0]
RimCoordinate(fn, i, radius) == [fn |-> fn, i |-> i, radius |-> radius]

TypedArrayNew(length, zero) == [k \in 0..(length - 1) |-> zero]

\* array[index] = value
Store(array, index, value) ==
    IF index \in DOMAIN array THEN [array EXCEPT ![index] = value] ELSE array

\* for (let i = 0; i <= segments; i++): the rim vertices
RECURSIVE rimLoop(_, _, _, _)
rimLoop(positions, i, segments, radius) ==
    IF i > segments THEN positions
    ELSE rimLoop(Store(Store(positions, (i + 1) * 2, RimCoordinate("cos", i, radius)),
                       (i + 1) * 2 + 1, RimCoordinate("sin", i, radius)),
                 i + 1, segments, radius)

\* for (let i = 0; i < segments; i++): the fan triangles
RECURSIVE fanLoop(_, _, _)
fanLoop(indices, i, segments) ==
    IF i >= segments THEN indices
    ELSE fanLoop(Store(Store(Store(indices, i * 3, 0), i * 3 + 1, i + 1),
                       i * 3 + 2, i + 2),
                 i + 1, segments)

generateCircleVertices(segments, radius) ==
    LET positions == TypedArrayNew((segments + 1) * 2, FloatZero)
        indices == TypedArrayNew(segments * 3, 0)
        centred == Store(Store(positions, 0, FloatZero), 1, FloatZero)
    IN  [positions |-> rimLoop(centred, 0, segments, radius),
         indices |-> fanLoop(indices, 0, segments)]

\* the position slots the rim loop writes to
RimWrites(segments) ==
    UNION {{(i + 1) * 2, (i + 1) * 2 + 1} : i \in 0..segments}

CircleRadiusSet == {0, 1, 150, 1000, ANTARCTIC_RIM_RADIUS}

NoGeometry == [positions |-> <<>>, indices |-> <<>>]

InitCircle(segmentCounts, radii) ==
    \E s \in segmentCounts, r \in radii :
        circle = [segments |-> s, radius |-> r, done |-> FALSE, geom |-> NoGeometry]

GenerateCircleVertices ==
    /\ ~circle.done
    /\ circle' = [circle EXCEPT
                    !.done = TRUE,
                    !.geom = generateCircleVertices(circle.segments, circle.radius)]
    /\ UNCHANGED notCircle

NextCircle == GenerateCircleVertices


(***************************************************************************)
(* Specifications                                                          *)
(***************************************************************************)
vars == <<camVars, gpsVars, climVars, glVars, slVars, bootVars, uniVars, angVars, simVars, dayVars, expVars, circleVars>>

Init ==
    /\ InitCamera(AspectSet)
    /\ InitGPS
    /\ InitClimate
    /\ InitGL
    /\ InitStreamline({DefaultStreamlineInput})
    /\ InitBoot
    /\ InitUniforms({UniformKeys})
    /\ InitAngles({0})
    /\ InitSim({0})
    /\ InitDay({0}, {One})
    /\ InitExpansion({Zero}, {DefaultExpSample})
    /\ InitCircle({1}, {1})

\* one canvas shape, for the specifications that do not drive the camera
InitSquare ==
    /\ InitCamera({One})
    /\ InitGPS
    /\ InitClimate
    /\ InitGL
    /\ InitStreamline({DefaultStreamlineInput})
    /\ InitBoot
    /\ InitUniforms({UniformKeys})
    /\ InitAngles({0})
    /\ InitSim({0})
    /\ InitDay({0}, {One})
    /\ InitExpansion({Zero}, {DefaultExpSample})
    /\ InitCircle({1}, {1})

\* every argument list of generateStreamlines
InitSolver ==
    /\ InitCamera({One})
    /\ InitGPS
    /\ InitClimate
    /\ InitGL
    /\ InitStreamline(StreamlineInputs)
    /\ InitBoot
    /\ InitUniforms({UniformKeys})
    /\ InitAngles({0})
    /\ InitSim({0})
    /\ InitDay({0}, {One})
    /\ InitExpansion({Zero}, {DefaultExpSample})
    /\ InitCircle({1}, {1})

Next ==
    \/ NextCamera
    \/ NextGPS
    \/ NextClimate
    \/ NextGL
    \/ NextStreamline
    \/ NextBoot
    \/ NextUniforms
    \/ NextAngles
    \/ NextSim
    \/ NextDay
    \/ NextExpansion
    \/ NextCircle

Spec == Init /\ [][Next]_vars
SpecCamera == Init /\ [][NextCamera]_vars
SpecGPS == InitSquare /\ [][NextGPS]_vars
SpecClimate == InitSquare /\ [][NextClimate]_vars
SpecGL == InitSquare /\ [][NextGL]_vars
SpecStreamline == InitSolver /\ [][NextStreamline]_vars
SpecStartup == InitSquare /\ [][NextBoot]_vars

\* every set of uniforms the linked programs may expose
InitPrograms ==
    /\ InitCamera({One})
    /\ InitGPS
    /\ InitClimate
    /\ InitGL
    /\ InitStreamline({DefaultStreamlineInput})
    /\ InitBoot
    /\ InitUniforms(ActiveSets)
    /\ InitAngles({0})
    /\ InitSim({0})
    /\ InitDay({0}, {One})
    /\ InitExpansion({Zero}, {DefaultExpSample})
    /\ InitCircle({1}, {1})

SpecUniforms == InitPrograms /\ [][NextUniforms]_vars

\* every pair of angles
InitAnglePairs ==
    /\ InitCamera({One})
    /\ InitGPS
    /\ InitClimate
    /\ InitGL
    /\ InitStreamline({DefaultStreamlineInput})
    /\ InitBoot
    /\ InitUniforms({UniformKeys})
    /\ InitAngles(AngleSet)
    /\ InitSim({0})
    /\ InitDay({0}, {One})
    /\ InitExpansion({Zero}, {DefaultExpSample})
    /\ InitCircle({1}, {1})

SpecAngles == InitAnglePairs /\ [][NextAngles]_vars

\* every value the page may give the time-scale slider
InitEngine ==
    /\ InitCamera({One})
    /\ InitGPS
    /\ InitClimate
    /\ InitGL
    /\ InitStreamline({DefaultStreamlineInput})
    /\ InitBoot
    /\ InitUniforms({UniformKeys})
    /\ InitAngles({0})
    /\ InitSim(TimeScaleSliderSet)
    /\ InitDay({0}, {One})
    /\ InitExpansion({Zero}, {DefaultExpSample})
    /\ InitCircle({1}, {1})

SpecEngine == InitEngine /\ [][NextSim]_vars

\* every day and every course of the intensity over it
InitDays ==
    /\ InitCamera({One})
    /\ InitGPS
    /\ InitClimate
    /\ InitGL
    /\ InitStreamline({DefaultStreamlineInput})
    /\ InitBoot
    /\ InitUniforms({UniformKeys})
    /\ InitAngles({0})
    /\ InitSim({0})
    /\ InitDay(DayStartSet, IntensitySet)
    /\ InitExpansion({Zero}, {DefaultExpSample})
    /\ InitCircle({1}, {1})

SpecDay == InitDays /\ [][NextDay]_vars

\* every expansion rate
InitRates ==
    /\ InitCamera({One})
    /\ InitGPS
    /\ InitClimate
    /\ InitGL
    /\ InitStreamline({DefaultStreamlineInput})
    /\ InitBoot
    /\ InitUniforms({UniformKeys})
    /\ InitAngles({0})
    /\ InitSim({0})
    /\ InitDay({0}, {One})
    /\ InitExpansion(ExpRateSet, ExpSampleSet)
    /\ InitCircle({1}, {1})

SpecExpansion == InitRates /\ [][NextExpansion]_vars

\* every segment count
InitSegments ==
    /\ InitCamera({One})
    /\ InitGPS
    /\ InitClimate
    /\ InitGL
    /\ InitStreamline({DefaultStreamlineInput})
    /\ InitBoot
    /\ InitUniforms({UniformKeys})
    /\ InitAngles({0})
    /\ InitSim({0})
    /\ InitDay({0}, {One})
    /\ InitExpansion({Zero}, {DefaultExpSample})
    /\ InitCircle(1..MaxSegments, CircleRadiusSet)

SpecCircle == InitSegments /\ [][NextCircle]_vars

(***************************************************************************)
(* Camera properties                                                       *)
(***************************************************************************)

\* C1: after any sequence of Camera operations the zoom lies in
\* [minZoom, maxZoom] = [0.1, 10].  setState and fitEarth write zoom
\* without clamping, so the code does not keep this.
C1_ZoomWithinLimits ==
    RLe(minZoom, cam.zoom) /\ RLe(cam.zoom, maxZoom)

\* C2: the anchor of zoomToPoint(wx, wy, f) has the same worldToScreen value
\* after the call as before it.  The code's compensating pan is scaled by
\* 1/zoom twice and moves the camera away from the anchor, so it does not.
C2_ZoomToPointKeepsAnchor ==
    camLast.op = "zoomToPoint" =>
        worldToScreen(cam, camLast.anchor[1], camLast.anchor[2]) = camLast.before

\* C9: in every camera state with non-zero zoom, worldToScreen applied to
\* screenToWorld(x, y) returns (x, y) for every screen point (x, y).
C9_ScreenWorldRoundTrip ==
    cam.zoom # Zero =>
        \A p \in ScreenSet :
            LET w == screenToWorld(cam, p[1], p[2])
            IN  worldToScreen(cam, w[1], w[2]) = p

\* the round trip is taken in a state that is rotated, offset, scaled and
\* not square, at a screen point away from the origin
C9_Witness ==
    /\ cam.rotation # 0
    /\ cam.x # Zero
    /\ cam.zoom # One
    /\ cam.aspect # One
    /\ LET w == screenToWorld(cam, Rat(1, 2), RInt(-1))
       IN  /\ w # <<Rat(1, 2), RInt(-1)>>
           /\ worldToScreen(cam, w[1], w[2]) = <<Rat(1, 2), RInt(-1)>>

\* C18: getViewProjectionMatrix() returns the matrix computed from the
\* camera's current position, zoom, rotation and aspect, never a stale one,
\* and the matrices are recomputed only if a mutator ran since the last
\* recomputation; a clean camera's cached matrix is the one of its fields.
C18_MatricesLazyAndFresh ==
    /\ camLast.op = "getViewProjectionMatrix" =>
           /\ camGet.returned = buildViewProjection(cam)
           /\ camGet.recomputed => camGet.wasStale
    /\ ~cam.dirty => cam.viewProjectionMatrix = buildViewProjection(cam)
    /\ camStale => cam.dirty

\* a mutation followed by a read that recomputed
C18_Witness ==
    /\ camLast.op = "getViewProjectionMatrix"
    /\ camGet.recomputed
    /\ camGet.wasStale
    /\ camGet.returned # buildViewProjection(CameraNew(cam.aspect))

(***************************************************************************)
(* GPSSimulator properties                                                 *)
(***************************************************************************)

\* C3: in every reachable state each station's displacement equals
\* polarToCartesian(position) minus polarToCartesian(initialPosition).
\* addStation stores a displacement of radialDisp along theta with
\* position = initialPosition, so the stations of generateRealisticStations
\* do not satisfy it until the next updatePositions or reset.
C3_DisplacementIsRecomputed ==
    \A i \in 1..Len(stations) :
        LET currentCart == polarToCartesian(stations[i].position)
            initialCart == polarToCartesian(stations[i].initialPosition)
        IN  stations[i].displacement =
                [x |-> RSub(currentCart.x, initialCart.x),
                 y |-> RSub(currentCart.y, initialCart.y)]

\* C10: after updatePositions calls, with setExpansionRate calls between
\* them, followed by reset(), every station's position equals its
\* initialPosition and its displacement is (0, 0); and no station's
\* initialPosition ever differs from the value it was created with.
C10_ResetRestoresStations ==
    /\ Len(gpsCreated) = Len(stations)
    /\ \A i \in 1..Len(stations) :
           stations[i].initialPosition = gpsCreated[i]
    /\ gpsLast.op = "reset" =>
           \A i \in 1..Len(stations) :
               /\ stations[i].position = stations[i].initialPosition
               /\ stations[i].displacement = [x |-> Zero, y |-> Zero]

\* reset() has run on a population that updatePositions had moved
C10_Witness ==
    /\ gpsLast.op = "reset"
    /\ gpsLast.moved
    /\ Len(stations) > 0

(***************************************************************************)
(* ClimateModel properties                                                 *)
(***************************************************************************)

\* C8 as stated: with the default boundaries getClimateZone(2000) is HEATING
\* and getClimateZone(1999) is STABLE or POLAR.
C8_Original ==
    (climate = ClimateModelNew /\ climZone # "NONE") =>
        /\ climR = HEATING_ZONE_MIN => climZone = "HEATING"
        /\ climR = HEATING_ZONE_MIN - 1 => climZone \in {"STABLE", "POLAR"}

\* C8 as amended: with the default boundaries getClimateZone(2000) is HEATING
\* and getClimateZone(1999) is TEMPERATE, the band between the polar cap
\* (r < 1000) and the heating zone.
C8_BoundaryZones ==
    (climate = ClimateModelNew /\ climZone # "NONE") =>
        /\ climR = HEATING_ZONE_MIN => climZone = "HEATING"
        /\ climR = HEATING_ZONE_MIN - 1 => climZone = "TEMPERATE"

\* the radius one unit below the boundary has been classified under the
\* default boundaries
C8_Witness ==
    /\ climate = ClimateModelNew
    /\ climR = HEATING_ZONE_MIN - 1
    /\ climZone = "TEMPERATE"

(***************************************************************************)
(* Renderer and engine resource properties                                 *)
(***************************************************************************)
RendererNames == {"earth", "field", "solar", "gps", "climate"}
Borrowers == {"field", "solar", "climate"}

Renderer(name) ==
    CASE name = "earth" -> earthR
      [] name = "field" -> fieldR
      [] name = "solar" -> solarR
      [] name = "gps" -> gpsR
      [] name = "climate" -> climateR

\* C4: after dispose() of a renderer every GPU handle that renderer created
\* (its vertex arrays and the position, colour and index buffers it created
\* for them) has been deleted.  No dispose() deletes the position and colour
\* buffers, so the code does not do this.
C4_DisposeReleasesOwnedHandles ==
    (glLast.op = "dispose" /\ glLast.who \in RendererNames) =>
        \A h \in 1..Len(glObjects) :
            glObjects[h].owner = glLast.who => glObjects[h].deletedBy # <<>>

\* C5: over any sequence of update and dispose calls each GPU handle is
\* deleted at most once (a second dispose() deletes nothing again).
\* SolarRenderer, GPSRenderer and EarthRenderer keep their handles after
\* dispose(), so a second call deletes them again.
C5_HandlesDeletedAtMostOnce ==
    \A h \in 1..Len(glObjects) : Len(glObjects[h].deletedBy) <= 1

\* C13: when the state the renderer's update step last ran on is empty (no
\* station, no station with a displacement that is not tiny, no streamline)
\* the corresponding render call issues no draw call.  updateStations and
\* updateVectors return early on an empty input and keep the vertex array
\* and count of the previous input, which renderStations and renderVectors
\* then draw.
C13_EmptyStateDrawsNothing ==
    /\ (glLast.op = "update" /\ glLast.who = "gps" /\ glLast.input.stations = 0) =>
           gpsRenderStations(gpsR) = 0
    /\ (glLast.op = "update" /\ glLast.who = "gps" /\ glLast.input.vectors = 0) =>
           gpsRenderVectors(gpsR) = 0
    /\ (glLast.op \in {"init", "update"} /\ glLast.who \in {"engine", "field"}
            /\ glLast.input.lines = 0) =>
           fieldRenderStreamlines(fieldR) = 0

\* C6: no renderer that borrows the shared base-disk vertex array
\* (EMFieldRenderer, SolarRenderer, ClimateRenderer) ever deletes it; a
\* borrower deletes only handles it created itself.
C6_BorrowersNeverDeleteBaseDisk ==
    \A h \in 1..Len(glObjects) :
        \A i \in 1..Len(glObjects[h].deletedBy) :
            glObjects[h].deletedBy[i] \in Borrowers =>
                /\ h # baseDisk
                /\ glObjects[h].owner = glObjects[h].deletedBy[i]

\* all three borrowers hold the base disk, have been disposed after creating
\* and deleting handles of their own, and the base disk is still live
C6_Witness ==
    /\ Borrowers \subseteq disposedR
    /\ \A b \in Borrowers :
           /\ Renderer(b).borrowedVAO = baseDisk
           /\ \E h \in 1..Len(glObjects) :
                  /\ glObjects[h].owner = b
                  /\ glObjects[h].deletedBy # <<>>
    /\ Live(baseDisk)

\* C7: at no point during FlatEarthEngine.dispose() does a renderer that has
\* not been disposed yet hold a deleted program or a freed base-disk handle.
\* dispose() frees the programs first and the renderers after, so it does.
C7_TeardownInReverseCreationOrder ==
    enginePc \in {"dispose_earth", "dispose_field", "dispose_solar", "dispose_gps"} =>
        \A name \in {"earth", "field", "solar", "gps"} :
            (Renderer(name).exists /\ name \notin disposedR) =>
                /\ \A p \in Renderer(name).programs : Live(p)
                /\ Renderer(name).borrowedVAO # 0 => Live(Renderer(name).borrowedVAO)

(***************************************************************************)
(* EMFieldSolver properties                                                *)
(***************************************************************************)

\* 1 <= r <= ANTARCTIC_RIM_RADIUS for the radius r of p
RadiusInDomain(p) ==
    LET rr == RAdd(RMul(p.x, p.x), RMul(p.y, p.y))
    IN  /\ rr[1] >= rr[2]
        /\ ~RGtNat(rr, ANTARCTIC_RIM_RADIUS * ANTARCTIC_RIM_RADIUS)

\* C11: every streamline of generateStreamlines(count, 100, maxSteps,
\* stepSize) has at most maxSteps + 1 points, and every point of it other
\* than the last has a radius r with 1 <= r <= ANTARCTIC_RIM_RADIUS.
C11_StreamlinesBounded ==
    sl.done =>
        \A k \in 1..Len(sl.streamlines) :
            LET points == sl.streamlines[k]
            IN  /\ Len(points) >= 1
                /\ Len(points) <= sl.args.maxSteps + 1
                /\ \A i \in 1..(Len(points) - 1) : RadiusInDomain(points[i])

\* one streamline stopped early at a point outside the domain, another one
\* of the same call ran its full maxSteps
C11_Witness ==
    /\ sl.done
    /\ \E k \in 1..Len(sl.streamlines) :
           /\ Len(sl.streamlines[k]) >= 2
           /\ Len(sl.streamlines[k]) < sl.args.maxSteps + 1
           /\ ~RadiusInDomain(sl.streamlines[k][Len(sl.streamlines[k])])
    /\ \E k \in 1..Len(sl.streamlines) :
           /\ Len(sl.streamlines[k]) = sl.args.maxSteps + 1
           /\ Len(sl.streamlines[k]) >= 3

(***************************************************************************)
(* Startup properties                                                      *)
(***************************************************************************)

\* C12: if context creation, a shader compilation or a program link fails
\* during startup, the frame loop never starts (animate is not called, no
\* frame is updated or rendered) and the error carrying the diagnostic is
\* the startup failure message: it is logged, and shown in the loading
\* element when the page has one.
C12_FailedStartupNeverRuns ==
    boot.diag # "none" =>
        /\ boot.pc = "failed"
        /\ ~boot.animating
        /\ boot.frames = 0
        /\ boot.diag \in {boot.logged.text, boot.logged.info}
        /\ boot.loadingEl =>
               boot.diag \in {boot.shown.error.text, boot.shown.error.info}

\* the link of the third program failed after two programs were built, on a
\* page with a loading element
C12_Witness ==
    /\ boot.pc = "failed"
    /\ boot.programs = 2
    /\ boot.thrown.text = "Program linking failed"
    /\ boot.diag \in InfoLogSet
    /\ boot.loadingEl
    /\ boot.shown.title = "Initialization Failed"


(***************************************************************************)
(* Uniform properties                                                      *)
(***************************************************************************)

\* C14: for each shader program the location of a uniform name is looked up
\* with getUniformLocation at most once, in one frame and across frames.
\* Every render method constructs a new UniformManager with an empty cache,
\* so the code looks the same name up again on each call.
C14_UniformLookedUpOnce ==
    \A k \in UniformKeys : uni.lookups[k] <= 1


(***************************************************************************)
(* Angle properties                                                        *)
(***************************************************************************)

\* C15: angularDifference(theta1, theta2) is congruent to theta2 - theta1
\* modulo a full turn and lies in (-pi, pi]; -pi is never returned.  The
\* second loop's test is diff < -pi, so a difference of exactly -pi (or of
\* -3 pi) comes back as -pi.
C15_AngularDifferenceHalfOpen ==
    ang.done =>
        /\ (ang.diff - (ang.theta2 - ang.theta1)) % (2 * MathPI) = 0
        /\ -MathPI < ang.diff
        /\ ang.diff <= MathPI


(***************************************************************************)
(* Engine properties                                                       *)
(***************************************************************************)

\* C16: after the Reset control the simulation parameters time, timeScale,
\* expansionRate and fieldStrength equal their startup values and every
\* station is back at its initial position.  The handler sets the
\* expansion-rate slider to '3.3' and dispatches its input event, which
\* stores 3.3 in state.expansionRate; the startup value is RATE = 0.033.
C16_ResetRestoresStartup ==
    simOp = "reset" =>
        /\ sim.state.time = simStartup.time
        /\ sim.state.timeScale = simStartup.timeScale
        /\ sim.state.expansionRate = simStartup.expansionRate
        /\ sim.state.fieldStrength = simStartup.fieldStrength
        /\ \A i \in 1..Len(sim.stations) :
               sim.stations[i].position = sim.stations[i].initialPosition

\* C17: a frame that starts with isPaused set leaves the simulation time and
\* every station's position, velocity and displacement as they were, and
\* leaves isPaused set.
C17_PausedFrameChangesNothing ==
    (simOp = "frame" /\ sim.frame.paused) =>
        /\ sim.state.time = sim.frame.timeBefore
        /\ sim.stations = sim.frame.stationsBefore
        /\ sim.state.isPaused

\* a paused frame after the stations have moved
C17_Witness ==
    /\ simOp = "frame"
    /\ sim.frame.paused
    /\ RLt(Zero, sim.state.time)
    /\ \E i \in 1..Len(sim.stations) :
           sim.stations[i].position # sim.stations[i].initialPosition


\* C19: whenever the station population has changed, the GPS renderer's
\* station buffers are re-uploaded before the stations are next drawn: a
\* frame in the GPS view draws exactly the simulator's current positions,
\* also when the simulation has been paused since startup or since a reset.
\* The only upload is in update(), on an unpaused frame and when
\* Math.random() < 0.1; init() and the reset handler upload nothing.
C19_DrawnStationsAreCurrent ==
    (simOp = "frame" /\ sim.viewMode = "gps") =>
        sim.frame.stationsDrawn = Positions(sim.stations)

\* C20: the sun path is regenerated when simulation time has passed the day
\* it was computed for, through frames or through the time control, so a
\* frame draws the path of the day of the sun marker it draws.  Only init(),
\* the time slider and the reset handler call updateSunPath; a frame that
\* advances time past the day leaves the buffer as it was.
C20_SunPathIsOfTheMarkerDay ==
    simOp = "frame" => sim.frame.pathDay = sim.frame.markerDay


(***************************************************************************)
(* Day length properties                                                   *)
(***************************************************************************)
LitSamples == {i \in 0..(SamplesPerDay - 1) : RLt(THRESHOLD, day.intensity[i])}
DarkSamples == {i \in 0..(SamplesPerDay - 1) : RLt(day.intensity[i], THRESHOLD)}
Least(S) == CHOOSE i \in S : \A j \in S : i <= j
DarkAfterSunrise == {i \in DarkSamples : i > Least(LitSamples)}

\* C21: sunrise is the first sample with intensity > 0.2 and sunset the
\* first later sample with intensity < 0.2; when both exist the result is
\* (sunset - sunrise) * 24, strictly between 0 and 24, and when either is
\* missing it is 24 if the midday intensity is > 0.2 and 0 otherwise.  The
\* code marks "not found" with the time -1, which is also the time of
\* sample 0 of day -1, so a sunrise at that sample is lost.
C21_DayLengthFromCrossings ==
    day.done =>
        IF LitSamples # {} /\ DarkAfterSunrise # {}
        THEN /\ day.hours = RMul(Rat(Least(DarkAfterSunrise) - Least(LitSamples),
                                     SamplesPerDay), RInt(24))
             /\ RLt(Zero, day.hours)
             /\ RLt(day.hours, RInt(24))
        ELSE day.hours = IF RLt(THRESHOLD, day.intensity[SamplesPerDay \div 2])
                         THEN RInt(24) ELSE Zero

\* C30: the result is 0 only if no sample is lit and 24 only if no sample
\* is dark; a day with lit and dark samples in any order yields a value
\* strictly between 0 and 24.  A day that is dark at the start and lit to
\* its end has no sunset, and the code returns 24 or 0 from the midday
\* sample alone.
C30_DayLengthExtremesOnlyAtPolarDays ==
    day.done =>
        /\ day.hours = Zero => LitSamples = {}
        /\ day.hours = RInt(24) => DarkSamples = {}
        /\ (LitSamples # {} /\ DarkSamples # {}) =>
               (RLt(Zero, day.hours) /\ RLt(day.hours, RInt(24)))


(***************************************************************************)
(* Expansion properties                                                    *)
(***************************************************************************)
RECURSIVE RSum(_)
RSum(s) == IF s = <<>> THEN Zero ELSE RAdd(Head(s), RSum(Tail(s)))

RECURSIVE RProd(_)
RProd(s) == IF s = <<>> THEN One ELSE RMul(Head(s), RProd(Tail(s)))

\* a^k / k!
RECURSIVE PowOverFact(_, _)
PowOverFact(a, k) ==
    IF k = 0 THEN One ELSE RMul(PowOverFact(a, k - 1), RDiv(a, RInt(k)))

\* sum of a^k / k! for k = 2..n: what is left of the product of n factors
\* (1 + x_i), with a the sum of the |x_i|, beyond its first-order part
RECURSIVE SecondOrder(_, _)
SecondOrder(a, n) ==
    IF n < 2 THEN Zero ELSE RAdd(PowOverFact(a, n), SecondOrder(a, n - 1))

ExpStation == expn.stations[1]
ExpSteps == [i \in 1..Len(expn.dts) |-> RMul(expn.rate, expn.dts[i])]
ExpClosedForm ==
    getExpandedRadius(expn.rate, ExpStation.initialPosition.r, RSum(expn.dts))

\* C22: updatePositions multiplies r by (1 + rate * dt) and leaves theta
\* alone, so the radius after dt1..dtn is r0 times the product of the
\* factors; for a single call, for rate = 0 and for all dt = 0 it equals
\* getExpandedRadius(r0, dt1 + ... + dtn), and otherwise the two differ by
\* no more than the terms of second and higher order in rate * dt.
C22_CompoundingAgreesToFirstOrder ==
    /\ ExpStation.position.theta = ExpStation.initialPosition.theta
    /\ ExpStation.position.r =
           RMul(ExpStation.initialPosition.r,
                RProd([i \in 1..Len(ExpSteps) |-> RAdd(One, ExpSteps[i])]))
    /\ (Len(expn.dts) <= 1 \/ expn.rate = Zero
            \/ \A i \in 1..Len(expn.dts) : expn.dts[i] = Zero) =>
           ExpStation.position.r = ExpClosedForm
    /\ RLe(RAbs(RSub(ExpStation.position.r, ExpClosedForm)),
           RMul(ExpStation.initialPosition.r,
                SecondOrder(RSum([i \in 1..Len(ExpSteps) |-> RAbs(ExpSteps[i])]),
                            Len(ExpSteps))))

\* two compounding steps after which the radii differ
C22_Witness ==
    /\ Len(expn.dts) >= 2
    /\ \A i \in 1..Len(expn.dts) : expn.dts[i] # Zero
    /\ ExpStation.position.r # ExpClosedForm
    /\ ExpStation.position.theta # 0


(***************************************************************************)
(* Geometry properties                                                     *)
(***************************************************************************)

\* C23: for every segments >= 1 each index of the returned index array
\* refers to a vertex stored in the returned positions buffer, and every
\* rim vertex the loop computes is stored within the buffer.  The buffer
\* holds segments + 1 vertices, the loop computes segments + 1 rim vertices
\* after the centre, and the last triangle's index segments + 1 names the
\* one that did not fit.
C23_FanIndicesInBounds ==
    circle.done =>
        /\ \A k \in DOMAIN circle.geom.indices :
               circle.geom.indices[k] * 2 + 1 \in DOMAIN circle.geom.positions
        /\ RimWrites(circle.segments) \subseteq DOMAIN circle.geom.positions


\* the number of vertices renderVectors draws: drawArrays(LINES, 0, vectorCount)
VectorVerticesDrawn(r) == IF gpsRenderVectors(r) = 0 THEN 0 ELSE r.pathCount

\* C24: after updateStations on a non-empty station population the vector
\* buffer renderVectors draws holds exactly 6 vertices for each station whose
\* displacement is not tiny, so an update that follows reset() (stations
\* present, every displacement zero) leaves no arrow to draw.  updateVectors
\* returns before touching vectorVAO and vectorCount when no station has a
\* displacement, and the arrows of the previous update stay.
C24_VectorsAreOfCurrentStations ==
    (glLast.op = "update" /\ glLast.who = "gps" /\ glLast.input.stations > 0) =>
        VectorVerticesDrawn(gpsR) = 6 * glLast.input.vectors


\* the vertex array a buffer was created for: the next vertex array its
\* owner created (createBuffer ..., then createVertexArray)
VertexArrayOf(h) ==
    LET later == {v \in (h + 1)..Len(glObjects) :
                     /\ glObjects[v].kind = "vao"
                     /\ glObjects[v].owner = glObjects[h].owner}
    IN  IF later = {} THEN 0 ELSE CHOOSE v \in later : \A w \in later : v <= w

Regenerating == {"field", "solar", "gps", "climate"}

\* C25: across any sequence of regeneration calls (generateStreamlines,
\* updateSunPath, updateStations, generateEventMarkers), before any dispose,
\* a renderer's live GPU objects are those of its current geometry: a buffer
\* is live only while the vertex array it was created for is live.  The
\* regeneration calls delete the replaced vertex arrays and never the
\* buffers behind them.
C25_RegenerationReleasesReplacedGeometry ==
    disposedR = {} =>
        \A h \in 1..Len(glObjects) :
            (/\ glObjects[h].kind = "buffer"
             /\ glObjects[h].owner \in Regenerating
             /\ Live(h)) => Live(VertexArrayOf(h))


\* the shader programs the GL calls of a regeneration use: each
\* createVertexArray(gl, this.lineProgram, ...) asks the line program for its
\* attribute locations, once per streamline, path, station set or marker
ProgramsUsedByUpdate(who, input) ==
    CASE who = "field" -> IF input.lines > 0 THEN {fieldR.lineProgram} ELSE {}
      [] who = "solar" -> {solarR.lineProgram}
      [] who = "gps" -> IF input.stations > 0 THEN {gpsR.lineProgram} ELSE {}
      [] who = "climate" -> {climateR.lineProgram}
      [] OTHER -> {}

\* C26: after FlatEarthEngine.dispose() has run, no later event issues a GL
\* call that uses a shader program or vertex array dispose() deleted.
\* dispose() cancels the animation frame and removes no listener: a slider
\* input or a Reset click after it still regenerates geometry, and
\* createVertexArray then queries the deleted line program.
C26_NoUseAfterDispose ==
    (enginePc = "disposed" /\ glLast.op = "update") =>
        \A p \in ProgramsUsedByUpdate(glLast.who, glLast.input) : Live(p)


\* the normalized x and y a 4x4 matrix gives the point (wx, wy, 0, 1)
TransformPoint(m, wx, wy) ==
    <<RAdd(RAdd(RMul(m.m0, wx), RMul(m.m4, wy)), m.m12),
      RAdd(RAdd(RMul(m.m1, wx), RMul(m.m5, wy)), m.m13)>>

\* C27: for every camera state the matrix getViewProjectionMatrix returns
\* maps a world point to the same normalized x and y as worldToScreen.
\* updateMatrices translates and then rotates, which leaves the translation
\* (-x, -y) unrotated, while worldToScreen rotates (world - camera): the two
\* differ for a rotated camera away from the origin.
C27_MatrixAgreesWithWorldToScreen ==
    camLast.op = "getViewProjectionMatrix" =>
        \A p \in PointSet :
            TransformPoint(camGet.returned, p[1], p[2]) = worldToScreen(cam, p[1], p[2])


\* the u_expansionRate uniform EarthRenderer.render sets from the
\* expansionRate argument render() passes it, state.expansionRate
ShaderExpansionRate(e) == RDiv(e.state.expansionRate, RInt(100))

\* C28: at every frame the rate of the ExpansionEngine, the rate of the
\* GPSSimulator and the rate given to the earth shader are the same value.
\* The constructor gives both engines state.expansionRate itself, the slider
\* handler gives them state.expansionRate / 100, and the shader always gets
\* state.expansionRate / 100: until the first slider input or Reset the
\* engines run at 100 times the shader's rate.
C28_OneExpansionRate ==
    simOp = "frame" =>
        /\ sim.expansionK = sim.gpsRate
        /\ sim.gpsRate = ShaderExpansionRate(sim)


\* C29: when createShaderProgram fails (the vertex shader or the fragment
\* shader fails to compile, or the program fails to link) every shader and
\* program object created during the call has been deleted when the error
\* reaches the caller.  compileShader deletes the shader that failed and
\* linkProgram the program that failed; the shaders compiled before the
\* failure are deleted only on the success path.
C29_FailedProgramLeavesNoShader ==
    (boot.pc = "failed"
        /\ boot.thrown.text \in {"Shader compilation failed", "Program linking failed"}) =>
        boot.liveShaders = 0


=============================================================================
